---------------------------- MODULE Spec2Model ----------------------------
(***************************************************************************)
(* A model of the chess_std position engine (slivering/chess_browser):     *)
(* bit sets, the generated attack tables, the Board, the legal move        *)
(* generator, move application and FEN import/export.                      *)
(*                                                                         *)
(* A Bitboard is modelled as the set of its member squares (0..63), so     *)
(* | is \cup, & is \cap, ^ is the symmetric difference and ! is the        *)
(* complement in 0..63.  A zobrist hash is modelled as the set of the      *)
(* table entries XOR-ed into it (XOR of table values = symmetric           *)
(* difference of entry sets; the random table values are taken to be       *)
(* XOR-independent).  An Option<T> is modelled as a set with at most one   *)
(* element.  Text is a sequence of one-character strings.                  *)
(***************************************************************************)
EXTENDS Integers, Sequences, FiniteSets, TLC

VARIABLES
    board,        \* the Board being played on
    legal,        \* the moves yielded by board.legal_moves(), in order
    line,         \* which game is being played (where it started, what is scripted)
    plies,        \* moves applied since the start of the line
    quiet_plies,  \* moves applied since the last capture or pawn move
    panicked,     \* an assertion of apply_move failed
    text,         \* the last to_fen() of the board, <<>> before any export
    imported,     \* from_fen(text): {} for Err
    lookup,       \* the last read of a generated table: its keys and the entry read
    game          \* a Game: its stack of boards, its moves, its hashes and its result

vars == <<board, legal, line, plies, quiet_plies, panicked, text, imported, lookup, game>>

---------------------------------------------------------------------------
(* units.rs: squares, ranks, files, directions, colours, piece types *)

NUM_SQUARES == 64

Squares == 0 .. (NUM_SQUARES - 1)

NONE_SQUARE == NUM_SQUARES

A1 == 0
E1 == 4
H1 == 7
A8 == 56
E8 == 60
H8 == 63

Square_new(r, f) == r * 8 + f

rank(sq) == sq \div 8

file(sq) == sq % 8

White == "White"
Black == "Black"
PLAYERS == <<White, Black>>

Pawn == "Pawn"
Knight == "Knight"
Bishop == "Bishop"
Rook == "Rook"
Queen == "Queen"
King == "King"

ALL_PIECE_TYPES == <<Pawn, Knight, Bishop, Rook, Queen, King>>

PieceTypes == {Pawn, Knight, Bishop, Rook, Queen, King}

Colors == {White, Black}

ptype_index(ptype) == CHOOSE i \in 0 .. 5 : ALL_PIECE_TYPES[i + 1] = ptype

color_index(col) == IF col = White THEN 0 ELSE 1

opponent(col) == IF col = White THEN Black ELSE White

can_be_promotion(ptype) == ptype_index(ptype) > ptype_index(Pawn) /\ ptype_index(ptype) < ptype_index(King)

Piece(col, ptype) == [color |-> col, ptype |-> ptype]

ALL_PIECES == [i \in 1 .. 12 |-> Piece(PLAYERS[((i - 1) \div 6) + 1], ALL_PIECE_TYPES[((i - 1) % 6) + 1])]

piece_index(pc) == 6 * color_index(pc.color) + ptype_index(pc.ptype)

North == 8
South == -8
East == 1
West == -1
NorthWest == 7
NorthEast == 9
SouthWest == -9
SouthEast == -7
NoDir == 0

ALL_DIRECTIONS == <<North, South, East, West, NorthWest, NorthEast, SouthWest, SouthEast>>

Directions == {ALL_DIRECTIONS[i] : i \in 1 .. 8}

of_pawns(col) == IF col = White THEN North ELSE South

rank_relative(r, col) == IF col = White THEN r ELSE 7 - r

rank_of_pawns(col) == rank_relative(1, col)

\* Square::shift: i8 addition, NONE unless the result is > 0.
square_shift(sq, dir) == IF sq + dir > 0 THEN sq + dir ELSE NONE_SQUARE

is_dark(sq) == (((rank(sq) % 2) + (file(sq) % 2)) % 2) = 0

---------------------------------------------------------------------------
(* bit.rs: the Bitboard *)

EMPTY == {}
FULL == Squares

RANK_1 == {sq \in Squares : rank(sq) = 0}
FILE_A == {sq \in Squares : file(sq) = 0}
FILE_H == {sq \in Squares : file(sq) = 7}
DIAG_A1_H8 == {sq \in Squares : rank(sq) = file(sq)}
DIAG_A8_H1 == {sq \in Squares : rank(sq) + file(sq) = 7}

single(sq) == {sq} \cap Squares

xor(a, b) == (a \ b) \cup (b \ a)

\* u64 << n and >> n: bits pushed past either end are lost.
shl(bb, n) == {sq + n : sq \in bb} \cap Squares

shr(bb, n) == {sq - n : sq \in bb} \cap Squares

shift(bb, dir) ==
    CASE dir = North -> shl(bb, 8)
      [] dir = South -> shr(bb, 8)
      [] dir = East -> shl(bb \ FILE_H, 1)
      [] dir = NorthEast -> shl(bb \ FILE_H, 9)
      [] dir = SouthEast -> shr(bb \ FILE_H, 7)
      [] dir = West -> shr(bb \ FILE_A, 1)
      [] dir = NorthWest -> shl(bb \ FILE_A, 7)
      [] dir = SouthWest -> shr(bb \ FILE_A, 9)
      [] OTHER -> bb

RECURSIVE shift_times(_, _, _)
shift_times(bb, dir, n) == IF n = 0 THEN bb ELSE shift_times(shift(bb, dir), dir, n - 1)

pop_count(bb) == Cardinality(bb)

\* trailing_zeros: 64 on the empty set.
scan_forward(bb) == IF bb = {} THEN NONE_SQUARE ELSE CHOOSE sq \in bb : \A o \in bb : sq <= o

scan_reverse(bb) == IF bb = {} THEN NONE_SQUARE ELSE CHOOSE sq \in bb : \A o \in bb : sq >= o

intersects(a, b) == a \cap b # {}

is_empty(bb) == bb = EMPTY

\* The iteration taking the highest square first.
RECURSIVE bitboard_iter_from_top(_)
bitboard_iter_from_top(bb) ==
    IF bb = {} THEN <<>>
    ELSE LET sq == scan_reverse(bb) IN <<sq>> \o bitboard_iter_from_top(bb \ {sq})

\* Iterator for Bitboard: the squares in the order next() yields them.
RECURSIVE bitboard_iter(_)
bitboard_iter(bb) ==
    IF bb = {} THEN <<>>
    ELSE LET sq == scan_forward(bb) IN <<sq>> \o bitboard_iter(bb \ {sq})

---------------------------------------------------------------------------
(* generate/attack_gen.rs: the tables written at build time *)

build_rays ==
    [dir \in Directions |-> [sq \in Squares |->
        LET r == rank(sq)
            f == file(sq)
        IN CASE dir = North -> shl(FILE_A \ {A1}, sq)
             [] dir = South -> shr(FILE_H \ {H8}, 63 - sq)
             [] dir = East -> shift_times(shift_times(RANK_1, North, r), East, f + 1)
             [] dir = West -> shift_times(shift_times(RANK_1, North, r), West, 8 - f)
             [] dir = NorthEast -> shift_times(shift_times(DIAG_A1_H8 \ {A1}, North, r), East, f)
             [] dir = NorthWest -> shift_times(shift_times(DIAG_A8_H1 \ {H1}, North, r), West, 7 - f)
             [] dir = SouthEast -> shift_times(shift_times(DIAG_A8_H1 \ {A8}, South, 7 - r), East, f)
             [] dir = SouthWest -> shift_times(shift_times(DIAG_A1_H8 \ {H8}, South, 7 - r), West, 7 - f)]]

RAYS == build_rays

\* The rays are the table build_rays has written.
build_pseudo_moves(rays) ==
    [ptype \in PieceTypes |-> [sq \in Squares |->
        LET bb == single(sq) IN
        CASE ptype = Pawn -> shift(bb, NorthWest) \cup shift(bb, NorthEast)
          [] ptype = Knight ->
                UNION {shift(shift(bb, d[1]), d[2]) :
                         d \in {<<North, NorthEast>>, <<North, NorthWest>>,
                                <<South, SouthWest>>, <<South, SouthEast>>,
                                <<East, NorthEast>>, <<East, SouthEast>>,
                                <<West, NorthWest>>, <<West, SouthWest>>}}
          [] ptype = Bishop ->
                UNION {rays[dir][sq] : dir \in {North, South, East, West}}
          [] ptype = Rook ->
                UNION {rays[dir][sq] : dir \in {NorthWest, NorthEast, SouthWest, SouthEast}}
          [] ptype = Queen ->
                UNION {rays[dir][sq] : dir \in {North, South, East, West,
                                                NorthWest, NorthEast, SouthWest, SouthEast}}
          [] ptype = King ->
                UNION {shift(bb, dir) : dir \in {North, South, East, West,
                                                 NorthWest, NorthEast, SouthWest, SouthEast}}]]

PSEUDO_MOVES == build_pseudo_moves(RAYS)

build_pawn_attacks ==
    [col \in Colors |-> [sq \in Squares |->
        IF col = White THEN shift(single(sq), NorthWest) \cup shift(single(sq), NorthEast)
        ELSE shift(single(sq), SouthWest) \cup shift(single(sq), SouthEast)]]

build_pawn_pushes ==
    [col \in Colors |-> [sq \in Squares |->
        LET dir == of_pawns(col)
            push == shift(single(sq), dir)
        IN IF rank(sq) = rank_of_pawns(col) THEN push \cup shift(push, dir) ELSE push]]

PAWN_ATTACKS == build_pawn_attacks

PAWN_PUSHES == build_pawn_pushes

\* build_dir_between: the rays from one square are disjoint, so at most one
\* direction is written for a pair.
build_dir_between(rays) ==
    [from \in Squares |-> [to \in Squares |->
        IF \E dir \in Directions : to \in rays[dir][from]
        THEN CHOOSE dir \in Directions : to \in rays[dir][from]
        ELSE NoDir]]

DIR_BETWEEN == build_dir_between(RAYS)

\* set_lines(bb, dir, n): the n bit sets bb, bb.shift(dir), ... written in turn.
set_lines(bb, dir, n) == [i \in 1 .. n |-> shift_times(bb, dir, i - 1)]

\* The lines in the order build_lines writes them; a later write of the same
\* entry replaces an earlier one.
lines_written ==
    set_lines(RANK_1, North, 8) \o
    set_lines(FILE_A, East, 8) \o
    set_lines(DIAG_A1_H8, NorthWest, 4) \o
    set_lines(DIAG_A1_H8, SouthEast, 4) \o
    set_lines(DIAG_A8_H1, NorthEast, 4) \o
    set_lines(DIAG_A8_H1, SouthWest, 4)

build_lines(written) ==
    [sq1 \in Squares |-> [sq2 \in Squares |->
        LET hits == {i \in 1 .. Len(written) : sq1 \in written[i] /\ sq2 \in written[i]}
        IN IF hits = {} THEN EMPTY
           ELSE written[CHOOSE i \in hits : \A j \in hits : j <= i]]]

LINES == build_lines(lines_written)

---------------------------------------------------------------------------
(* attack.rs: table lookups and sliding attacks *)

get_ray(dir, from) == RAYS[dir][from]

direction_between(from, to) == DIR_BETWEEN[from][to]

fill_between(from, to) ==
    LET dir == direction_between(from, to)
    IN xor(xor(get_ray(dir, from), get_ray(dir, to)), single(to))

fill_line(from, to) == LINES[from][to]

fill(dir, from, same_color, enemy) ==
    LET ray == get_ray(dir, from)
        blockers == (same_color \cup enemy) \cap ray
        blocker == IF dir > 0 THEN scan_forward(blockers) ELSE scan_reverse(blockers)
        cut == IF blockers # {} THEN xor(ray, get_ray(dir, blocker)) ELSE ray
    IN cut \ same_color

pawn_pushes(col, from, blockers) ==
    LET dir == of_pawns(col)
        no_reach == shift(shift(single(from), dir) \cap blockers, dir)
    IN (PAWN_PUSHES[col][from] \ no_reach) \ blockers

of_pawn(col, from, enemy) == PAWN_ATTACKS[col][from] \cap enemy

of_knight(from, same_color) == PSEUDO_MOVES[Knight][from] \ same_color

bishop_rays(from) ==
    UNION {get_ray(dir, from) : dir \in {NorthWest, NorthEast, SouthWest, SouthEast}}

of_bishop(from, same_color, enemy) ==
    UNION {fill(dir, from, same_color, enemy) : dir \in {NorthWest, NorthEast, SouthWest, SouthEast}}

rook_rays(from) ==
    UNION {get_ray(dir, from) : dir \in {North, South, West, East}}

of_rook(from, same_color, enemy) ==
    UNION {fill(dir, from, same_color, enemy) : dir \in {North, South, West, East}}

of_queen(from, same_color, enemy) ==
    of_bishop(from, same_color, enemy) \cup of_rook(from, same_color, enemy)

of_king(from, same_color) == PSEUDO_MOVES[King][from] \ same_color

---------------------------------------------------------------------------
(* moves.rs: Move, MoveFlag, castling *)

Side_King == King
Side_Queen == Queen
Sides == {Side_King, Side_Queen}

side_index(side) == IF side = Side_King THEN 0 ELSE 1

ALL_RIGHTS == [side \in Sides |-> TRUE]
NO_RIGHTS == [side \in Sides |-> FALSE]

\* MoveFlag: the payload of EnPassant is the passed pawn's square, that of
\* Promotion the PieceType discriminant, that of Castling the Side discriminant.
Quiet == [kind |-> "Quiet", arg |-> 0]
EnPassant(passed) == [kind |-> "EnPassant", arg |-> passed]
Promotion(ptype) == [kind |-> "Promotion", arg |-> ptype_index(ptype)]
Castling(side) == [kind |-> "Castling", arg |-> side_index(side)]

promotion_ptype(flag) == ALL_PIECE_TYPES[flag.arg + 1]

castling_side(flag) == IF flag.arg = 0 THEN Side_King ELSE Side_Queen

Move(from, to, flag) == [from |-> from, to |-> to, flag |-> flag]

Move_NONE == Move(NONE_SQUARE, NONE_SQUARE, Quiet)

Move_quiet(from, to) == Move(from, to, Quiet)

Move_en_passant(from, to, passed) == Move(from, to, EnPassant(passed))

Move_promotion(from, to, ptype) == Move(from, to, Promotion(ptype))

\* CASTLINGS[col][side][i]: the (from, to) pair of the king (i = 0) or rook (i = 1).
CASTLINGS ==
    [col \in Colors |-> [side \in Sides |->
        LET base == IF col = White THEN A1 ELSE A8
        IN IF side = Side_King
           THEN << <<base + 4, base + 6>>, <<base + 7, base + 5>> >>
           ELSE << <<base + 4, base + 2>>, <<base + 0, base + 3>> >>]]

castling_coords(col, side, ptype) == CASTLINGS[col][side][IF ptype = King THEN 1 ELSE 2]

rook_castling_coords(col, side) == castling_coords(col, side, Rook)

Move_castling(col, side) ==
    LET c == castling_coords(col, side, King) IN Move(c[1], c[2], Castling(side))

is_none(mv) == mv = Move_NONE

\* is_double_push taking a step of one square from the home rank as well.
is_push_from_home(mv, col) ==
    LET dir == of_pawns(col)
    IN /\ rank_relative(1, col) = rank(mv.from)
       /\ mv.to \in {square_shift(mv.from, dir), square_shift(square_shift(mv.from, dir), dir)}

is_double_push(mv, col) ==
    LET dir == of_pawns(col)
    IN rank_relative(1, col) = rank(mv.from) /\ square_shift(square_shift(mv.from, dir), dir) = mv.to

---------------------------------------------------------------------------
(* position.rs: zobrist keys and the Board *)

NUM_PIECES == 12

\* One table entry per (piece, square), per square, per colour, per rights
\* combination, and the two fixed values, each named by a distinct number.
hash_piece(pc, sq) == {piece_index(pc) + NUM_PIECES * sq}

hash_square(sq) == {1000 + sq}

hash_color(col) == {2000 + color_index(col)}

bool_int(b) == IF b THEN 1 ELSE 0

hash_rights(rights) ==
    {3000 + bool_int(rights[White][Side_King]) + 2 * bool_int(rights[White][Side_Queen])
          + 4 * bool_int(rights[Black][Side_King]) + 8 * bool_int(rights[Black][Side_Queen])}

INITIAL_HASH == {4000}

NONE_HASH == {5000}

ALL_PLAYERS_RIGHTS == [col \in Colors |-> ALL_RIGHTS]
NO_PLAYERS_RIGHTS == [col \in Colors |-> NO_RIGHTS]

INITIAL_GRID ==
    [ptype \in PieceTypes |->
        CASE ptype = Pawn -> {sq \in Squares : rank(sq) \in {1, 6}}
          [] ptype = Knight -> {1, 6, 57, 62}
          [] ptype = Bishop -> {2, 5, 58, 61}
          [] ptype = Rook -> {0, 7, 56, 63}
          [] ptype = Queen -> {3, 59}
          [] ptype = King -> {4, 60}]

INITIAL_COLORS ==
    [col \in Colors |->
        IF col = White THEN {sq \in Squares : rank(sq) \in {0, 1}}
        ELSE {sq \in Squares : rank(sq) \in {6, 7}}]

color(b, col) == b.colors[col]

piece_type(b, ptype) == b.pieces[ptype]

own_color(b) == color(b, b.turn)

opponent_color(b) == color(b, opponent(b.turn))

own_piece_type(b, ptype) == color(b, b.turn) \cap piece_type(b, ptype)

opponent_piece_type(b, ptype) == color(b, opponent(b.turn)) \cap piece_type(b, ptype)

piece(b, pc) == color(b, pc.color) \cap piece_type(b, pc.ptype)

of_color_and_type(b, col, ptype) == color(b, col) \cap piece_type(b, ptype)

empty(b) == xor(xor(FULL, color(b, White)), color(b, Black))

occupied(b) == color(b, White) \cup color(b, Black)

color_at(b, sq) ==
    IF sq \in color(b, White) THEN {White}
    ELSE IF sq \in color(b, Black) THEN {Black}
    ELSE {}

piece_type_at(b, sq) ==
    IF sq \notin occupied(b) THEN {}
    ELSE IF sq \in piece_type(b, Pawn) THEN {Pawn}
    ELSE IF sq \in piece_type(b, Knight) THEN {Knight}
    ELSE IF sq \in piece_type(b, Bishop) THEN {Bishop}
    ELSE IF sq \in piece_type(b, Rook) THEN {Rook}
    ELSE IF sq \in piece_type(b, Queen) THEN {Queen}
    ELSE {King}

piece_at(b, sq) == {Piece(c, t) : c \in color_at(b, sq), t \in piece_type_at(b, sq)}

\* add_piece without the update of the hash.
add_piece_unhashed(b, pc, sq) ==
    [b EXCEPT !.pieces[pc.ptype] = @ \cup single(sq),
              !.colors[pc.color] = @ \cup single(sq)]

add_piece(b, pc, sq) ==
    [b EXCEPT !.pieces[pc.ptype] = @ \cup single(sq),
              !.colors[pc.color] = @ \cup single(sq),
              !.hash = xor(@, hash_piece(pc, sq))]

\* remove_piece clearing the piece-type set only.
remove_piece_leaving_color(b, pc, sq) ==
    [b EXCEPT !.pieces[pc.ptype] = @ \ single(sq),
              !.hash = xor(@, hash_piece(pc, sq))]

remove_piece(b, pc, sq) ==
    [b EXCEPT !.pieces[pc.ptype] = @ \ single(sq),
              !.colors[pc.color] = @ \ single(sq),
              !.hash = xor(@, hash_piece(pc, sq))]

move_piece(b, pc, from, to) == add_piece(remove_piece(b, pc, from), pc, to)

\* rehash: for each piece, the squares on which its set differs from the
\* initial one are XOR-ed in, each exactly once.
rehash(b) ==
    [b EXCEPT !.hash = xor(INITIAL_HASH,
        UNION {UNION {hash_piece(ALL_PIECES[i], sq) :
                  sq \in xor(piece(b, ALL_PIECES[i]),
                             INITIAL_GRID[ALL_PIECES[i].ptype] \cap INITIAL_COLORS[ALL_PIECES[i].color])} :
               i \in 1 .. 12})]

Board_default ==
    rehash([pieces |-> [ptype \in PieceTypes |-> EMPTY],
            colors |-> [col \in Colors |-> EMPTY],
            hash |-> INITIAL_HASH,
            turn |-> White,
            half_move_clock |-> 0,
            ep_target |-> {},
            rights |-> ALL_PLAYERS_RIGHTS,
            last_cap_or_push |-> 0,
            checkers |-> EMPTY,
            pinned |-> EMPTY])

Board_new ==
    [pieces |-> INITIAL_GRID,
     colors |-> INITIAL_COLORS,
     hash |-> INITIAL_HASH,
     turn |-> White,
     half_move_clock |-> 0,
     ep_target |-> {},
     rights |-> ALL_PLAYERS_RIGHTS,
     last_cap_or_push |-> 0,
     checkers |-> EMPTY,
     pinned |-> EMPTY]

num_moves_played(b) == b.half_move_clock * 2 + (IF b.turn = White THEN 0 ELSE 1)

has_right(b, player, side) == b.rights[player][side]

add_right(b, player, side) == [b EXCEPT !.rights[player][side] = TRUE]

remove_right(b, player, side) == [b EXCEPT !.rights[player][side] = FALSE]

remove_rights(b, player) == remove_right(remove_right(b, player, Side_King), player, Side_Queen)

is_attacked(b, sq, by) ==
    LET me == opponent(by)
        ours == color(b, me)
        enemy == color(b, by)
        enm(ptype) == enemy \cap piece_type(b, ptype)
    IN \/ intersects(of_bishop(sq, ours, enemy), enm(Bishop) \cup enm(Queen))
       \/ intersects(of_rook(sq, ours, enemy), enm(Rook) \cup enm(Queen))
       \/ intersects(of_knight(sq, ours), enm(Knight))
       \/ intersects(of_pawn(me, sq, enemy), enm(Pawn))
       \/ intersects(of_king(sq, ours), enm(King))

is_safe_to_move(b, from, to) ==
    LET me == CHOOSE c \in color_at(b, from) : TRUE
        ours == xor(color(b, me), single(from))
        enemy == color(b, opponent(me)) \ single(to)
        enm(ptype) == enemy \cap piece_type(b, ptype)
    IN is_empty((of_bishop(to, ours, enemy) \cap (enm(Bishop) \cup enm(Queen))) \cup
                (of_rook(to, ours, enemy) \cap (enm(Rook) \cup enm(Queen))) \cup
                (of_knight(to, ours) \cap enm(Knight)) \cup
                (of_pawn(me, to, enemy) \cap enm(Pawn)) \cup
                (of_king(to, ours) \cap enm(King)))

is_safe(b, sq, for) == ~is_attacked(b, sq, opponent(for))

king_square_of(b, player) == scan_forward(of_color_and_type(b, player, King))

king_square(b) == king_square_of(b, b.turn)

is_pinned(b, sq) == sq \in b.pinned

\* update_attacks looking along the rays only: no knight or pawn checkers.
update_attacks_along_rays(b) ==
    LET ksq == king_square(b)
        bishops == opponent_piece_type(b, Bishop)
        rooks == opponent_piece_type(b, Rook)
        queens == opponent_piece_type(b, Queen)
        pinners == (bishop_rays(ksq) \cap (bishops \cup queens)) \cup
                   (rook_rays(ksq) \cap (rooks \cup queens))
        between(pinner) == fill_between(ksq, pinner) \cap occupied(b)
    IN [b EXCEPT
          !.pinned = UNION {between(p) : p \in {q \in pinners : pop_count(between(q)) = 1}},
          !.checkers = {p \in pinners : pop_count(between(p)) = 0}]

\* update_attacks keeping the own pieces only in pinned.
update_attacks_pinning_own(b) ==
    LET ksq == king_square(b)
        bishops == opponent_piece_type(b, Bishop)
        rooks == opponent_piece_type(b, Rook)
        queens == opponent_piece_type(b, Queen)
        pinners == (bishop_rays(ksq) \cap (bishops \cup queens)) \cup
                   (rook_rays(ksq) \cap (rooks \cup queens))
        between(pinner) == fill_between(ksq, pinner) \cap occupied(b)
        pawns == opponent_piece_type(b, Pawn)
        knights == opponent_piece_type(b, Knight)
    IN [b EXCEPT
          !.pinned = UNION {between(p) \cap own_color(b) : p \in {q \in pinners : pop_count(between(q)) = 1}},
          !.checkers = {p \in pinners : pop_count(between(p)) = 0}
                       \cup (of_knight(ksq, own_color(b)) \cap knights)
                       \cup (of_pawn(b.turn, ksq, opponent_color(b)) \cap pawns)]

update_attacks(b) ==
    LET ksq == king_square(b)
        bishops == opponent_piece_type(b, Bishop)
        rooks == opponent_piece_type(b, Rook)
        queens == opponent_piece_type(b, Queen)
        pinners == (bishop_rays(ksq) \cap (bishops \cup queens)) \cup
                   (rook_rays(ksq) \cap (rooks \cup queens))
        between(pinner) == fill_between(ksq, pinner) \cap occupied(b)
        pawns == opponent_piece_type(b, Pawn)
        knights == opponent_piece_type(b, Knight)
    IN [b EXCEPT
          !.pinned = UNION {between(p) : p \in {q \in pinners : pop_count(between(q)) = 1}},
          !.checkers = {p \in pinners : pop_count(between(p)) = 0}
                       \cup (of_knight(ksq, own_color(b)) \cap knights)
                       \cup (of_pawn(b.turn, ksq, opponent_color(b)) \cap pawns)]

type_moved_by(b, mv) == piece_type_at(b, mv.from)

captured_by(b, mv) ==
    IF mv.flag.kind = "EnPassant" THEN piece_at(b, mv.flag.arg) ELSE piece_at(b, mv.to)

zobrist_hash(b) ==
    xor(xor(xor(b.hash, hash_color(b.turn)), hash_rights(b.rights)),
        IF b.ep_target # {} THEN hash_square(CHOOSE sq \in b.ep_target : TRUE) ELSE NONE_HASH)

---------------------------------------------------------------------------
(* movegen.rs: MoveGen *)

MovesFromSquare(moves, from) == [moves |-> moves, from |-> from]

MoveGen_new == [quiets |-> <<>>, specials |-> <<>>, promotion_mask |-> EMPTY, promotion_index |-> 0]

add_moves_from(gen, from, moves) ==
    [gen EXCEPT !.quiets = Append(@, MovesFromSquare(moves, from))]

add_special_move(gen, mv) == [gen EXCEPT !.specials = Append(@, mv)]

add_promotion_from(gen, from, moves) ==
    [add_moves_from(gen, from, moves) EXCEPT !.promotion_mask = @ \cup single(from)]

add_non_outpinning_attacks(gen, b, from, attacks) ==
    LET kept == IF is_pinned(b, from) THEN attacks \cap fill_line(from, king_square(b)) ELSE attacks
    IN IF kept # {} THEN add_moves_from(gen, from, kept) ELSE gen

add_non_outpinning_promotions(gen, b, from, proms) ==
    LET kept == IF is_pinned(b, from) THEN proms \cap fill_line(from, king_square(b)) ELSE proms
    IN IF kept # {} THEN add_promotion_from(gen, from, kept) ELSE gen

\* `attacks` in the body of one `for from in board.own_piece_type(ptype)`
\* loop of add_non_king_moves.
attacks_of_piece(b, ptype, from, ours, enemy, dests) ==
    dests \cap
    CASE ptype = Pawn -> of_pawn(b.turn, from, enemy) \cup pawn_pushes(b.turn, from, ours \cup enemy)
      [] ptype = Knight -> of_knight(from, ours)
      [] ptype = Bishop -> of_bishop(from, ours, enemy)
      [] ptype = Rook -> of_rook(from, ours, enemy)
      [] ptype = Queen -> of_queen(from, ours, enemy)

\* The rest of that body: the pawns of the seventh rank promote.
add_attacks_of_piece(gen, b, ptype, from, attacks) ==
    IF ptype = Pawn /\ rank(from) = rank_relative(6, b.turn)
    THEN add_non_outpinning_promotions(gen, b, from, attacks)
    ELSE add_non_outpinning_attacks(gen, b, from, attacks)

add_moves_of_piece(gen, b, ptype, from, dests) ==
    add_attacks_of_piece(gen, b, ptype, from,
                         attacks_of_piece(b, ptype, from, own_color(b), opponent_color(b), dests))

\* One `for from in board.own_piece_type(ptype)` loop of add_non_king_moves.
RECURSIVE add_moves_of_type(_, _, _, _, _)
add_moves_of_type(gen, b, ptype, froms, dests) ==
    IF froms = <<>> THEN gen
    ELSE add_moves_of_type(add_moves_of_piece(gen, b, ptype, Head(froms), dests),
                           b, ptype, Tail(froms), dests)

\* The loops of add_non_king_moves for the piece types listed, in that order.
RECURSIVE add_moves_of_types(_, _, _, _)
add_moves_of_types(gen, b, ptypes, dests) ==
    IF ptypes = <<>> THEN gen
    ELSE add_moves_of_types(
             add_moves_of_type(gen, b, Head(ptypes),
                               bitboard_iter(own_piece_type(b, Head(ptypes))), dests),
             b, Tail(ptypes), dests)

RECURSIVE add_en_passant_from(_, _, _, _, _)
add_en_passant_from(gen, b, froms, ep_target, passed) ==
    IF froms = <<>> THEN gen
    ELSE LET from == Head(froms)
             pin_ray == fill_line(from, king_square(b))
             next == IF ~is_pinned(b, from) \/ ep_target \in pin_ray
                     THEN add_special_move(gen, Move_en_passant(from, ep_target, passed))
                     ELSE gen
         IN add_en_passant_from(next, b, Tail(froms), ep_target, passed)

\* add_en_passant without the test of the passed pawn being pinned.
add_en_passant_unpinned(gen, b, ep_target, dests) ==
    LET passed == square_shift(ep_target, of_pawns(opponent(b.turn)))
        bb == shift(single(passed), West) \cup shift(single(passed), East)
    IN IF ep_target \notin dests THEN gen
       ELSE add_en_passant_from(gen, b, bitboard_iter(bb \cap own_piece_type(b, Pawn)), ep_target, passed)

add_en_passant(gen, b, ep_target, dests) ==
    LET passed == square_shift(ep_target, of_pawns(opponent(b.turn)))
        bb == shift(single(passed), West) \cup shift(single(passed), East)
    IN IF ep_target \notin dests THEN gen
       ELSE IF is_pinned(b, passed) /\ file(king_square(b)) # file(passed) THEN gen
       ELSE add_en_passant_from(gen, b, bitboard_iter(bb \cap own_piece_type(b, Pawn)), ep_target, passed)

check_dests(b) ==
    IF pop_count(b.checkers) = 1
    THEN LET checker == scan_forward(b.checkers)
             sliders == opponent_piece_type(b, Bishop) \cup opponent_piece_type(b, Rook)
                        \cup opponent_piece_type(b, Queen)
         IN IF checker \in sliders
            THEN b.checkers \cup fill_between(king_square(b), checker)
            ELSE b.checkers
    ELSE FULL

\* `if let Some(sq) = board.ep_target { self.add_en_passant(board, sq, dests) }`
add_en_passant_to(gen, b, ep_target, dests) ==
    IF ep_target # {} THEN add_en_passant(gen, b, CHOOSE sq \in ep_target : TRUE, dests) ELSE gen

\* add_non_king_moves once dests is known: the pawns, the en passant
\* captures, then the knights, bishops, rooks and queens.
add_non_king_moves_to(gen, b, dests) ==
    add_moves_of_types(
        add_en_passant_to(add_moves_of_types(gen, b, <<Pawn>>, dests), b, b.ep_target, dests),
        b, <<Knight, Bishop, Rook, Queen>>, dests)

add_non_king_moves(gen, b) == add_non_king_moves_to(gen, b, check_dests(b))

in_check(b) == b.checkers # {}

\* One `if board.has_right(board.turn, side)` block of add_castlings: the
\* squares between reach one step further on the queen's side.
add_castling(gen, b, king_sq, side) ==
    LET mv == Move_castling(b.turn, side)
        middle == square_shift(king_sq, IF side = Side_King THEN East ELSE West)
        between == single(middle) \cup single(mv.to) \cup
                   (IF side = Side_Queen THEN single(square_shift(mv.to, West)) ELSE EMPTY)
    IN IF /\ has_right(b, b.turn, side)
          /\ ~intersects(occupied(b), between)
          /\ \A sq \in {middle, mv.to} : is_safe(b, sq, b.turn)
       THEN add_special_move(gen, mv) ELSE gen

RECURSIVE add_castling_sides(_, _, _, _)
add_castling_sides(gen, b, king_sq, sides) ==
    IF sides = <<>> THEN gen
    ELSE add_castling_sides(add_castling(gen, b, king_sq, Head(sides)), b, king_sq, Tail(sides))

add_castlings(gen, b, king_sq) ==
    IF in_check(b) THEN gen
    ELSE add_castling_sides(gen, b, king_sq, <<Side_King, Side_Queen>>)

\* new_from once the king's moves are in the generator.
add_other_moves(gen, b) ==
    IF pop_count(b.checkers) < 2
    THEN add_castlings(add_non_king_moves(gen, b), b, king_square(b))
    ELSE gen

king_legals(b, from) == {to \in of_king(from, own_color(b)) : is_safe_to_move(b, from, to)}

new_from(b) ==
    add_other_moves(add_moves_from(MoveGen_new, king_square(b), king_legals(b, king_square(b))), b)

\* Iterator::next for MoveGen: the item yielded (None is {}) and the generator
\* left behind.
RECURSIVE MoveGen_next(_)
MoveGen_next(gen) ==
    IF gen.quiets # <<>>
    THEN LET of_piece == Head(gen.quiets) IN
         IF of_piece.moves # {}
         THEN LET to == scan_forward(of_piece.moves) IN
              IF of_piece.from \in gen.promotion_mask
              THEN IF gen.promotion_index + 1 > 4
                   THEN MoveGen_next([gen EXCEPT !.promotion_index = 0,
                                                 !.quiets[1].moves = @ \ {to}])
                   ELSE [item |-> {Move_promotion(of_piece.from, to, ALL_PIECE_TYPES[gen.promotion_index + 2])},
                         gen |-> [gen EXCEPT !.promotion_index = @ + 1]]
              ELSE [item |-> {Move_quiet(of_piece.from, to)},
                    gen |-> [gen EXCEPT !.quiets[1].moves = @ \ {to}]]
         ELSE MoveGen_next([gen EXCEPT !.quiets = Tail(@)])
    ELSE IF gen.specials = <<>>
         THEN [item |-> {}, gen |-> gen]
         ELSE [item |-> {gen.specials[Len(gen.specials)]},
               gen |-> [gen EXCEPT !.specials = SubSeq(@, 1, Len(@) - 1)]]

\* `for mv in gen`: every move yielded until next() returns None.
RECURSIVE MoveGen_iter(_)
MoveGen_iter(gen) ==
    LET r == MoveGen_next(gen)
    IN IF r.item = {} THEN <<>>
       ELSE <<CHOOSE mv \in r.item : TRUE>> \o MoveGen_iter(r.gen)

RECURSIVE sum_quiets(_, _)
sum_quiets(gen, i) ==
    IF i > Len(gen.quiets) THEN 0
    ELSE pop_count(gen.quiets[i].moves) * (IF gen.quiets[i].from \in gen.promotion_mask THEN 4 ELSE 1)
         + sum_quiets(gen, i + 1)

\* len counting each destination once, promotion or not.
MoveGen_len_by_destination(gen) ==
    LET RECURSIVE dests(_)
        dests(i) == IF i > Len(gen.quiets) THEN 0
                    ELSE pop_count(gen.quiets[i].moves) + dests(i + 1)
    IN dests(1) + Len(gen.specials)

MoveGen_len(gen) == sum_quiets(gen, 1) + Len(gen.specials)

MoveGen_contains(gen, mv) ==
    CASE mv.flag.kind = "Quiet" ->
            \E i \in 1 .. Len(gen.quiets) : gen.quiets[i].from = mv.from /\ mv.to \in gen.quiets[i].moves
      [] mv.flag.kind = "Promotion" ->
            /\ can_be_promotion(promotion_ptype(mv.flag))
            /\ \E i \in 1 .. Len(gen.quiets) : gen.quiets[i].from = mv.from /\ mv.to \in gen.quiets[i].moves
      [] OTHER -> \E i \in 1 .. Len(gen.specials) : gen.specials[i] = mv

---------------------------------------------------------------------------
(* movegen.rs: MoveGenMasked *)

MoveGenMasked_from(gen) ==
    [quiets |-> gen.quiets,
     specials |-> gen.specials,
     orig_mask |-> FULL,
     dest_mask |-> FULL,
     promotion_mask |-> gen.promotion_mask,
     promotion_index |-> gen.promotion_index]

is_covered(gen, mv) == mv.from \in gen.orig_mask /\ mv.to \in gen.dest_mask

set_origin_mask(gen, froms) == [gen EXCEPT !.orig_mask = froms]

set_destination_mask(gen, dests) == [gen EXCEPT !.dest_mask = dests]

\* Iterator::next for MoveGenMasked.
RECURSIVE MoveGenMasked_next(_)
MoveGenMasked_next(gen) ==
    IF gen.quiets # <<>>
    THEN LET of_piece == Head(gen.quiets) IN
         IF of_piece.from \notin gen.orig_mask
         THEN MoveGenMasked_next([gen EXCEPT !.quiets = Tail(@)])
         ELSE IF of_piece.moves # {}
         THEN LET to == scan_forward(of_piece.moves) IN
              IF to \notin gen.dest_mask
              THEN MoveGenMasked_next([gen EXCEPT !.quiets[1].moves = @ \ {to}])
              ELSE IF of_piece.from \in gen.promotion_mask
              THEN IF gen.promotion_index + 1 >= 4
                   THEN MoveGenMasked_next([gen EXCEPT !.promotion_index = 0,
                                                       !.quiets[1].moves = @ \ {to}])
                   ELSE [item |-> {Move_promotion(of_piece.from, to, ALL_PIECE_TYPES[gen.promotion_index + 3])},
                         gen |-> [gen EXCEPT !.promotion_index = @ + 1]]
              ELSE [item |-> {Move_quiet(of_piece.from, to)},
                    gen |-> [gen EXCEPT !.quiets[1].moves = @ \ {to}]]
         ELSE MoveGenMasked_next([gen EXCEPT !.quiets = Tail(@)])
    ELSE IF gen.specials = <<>>
         THEN [item |-> {}, gen |-> gen]
         ELSE [item |-> {mv \in {gen.specials[Len(gen.specials)]} : is_covered(gen, mv)},
               gen |-> [gen EXCEPT !.specials = SubSeq(@, 1, Len(@) - 1)]]

\* `for mv in gen`: every move yielded until next() returns None.
RECURSIVE MoveGenMasked_iter(_)
MoveGenMasked_iter(gen) ==
    LET r == MoveGenMasked_next(gen)
    IN IF r.item = {} THEN <<>>
       ELSE <<CHOOSE mv \in r.item : TRUE>> \o MoveGenMasked_iter(r.gen)

RECURSIVE sum_covered_quiets(_, _)
sum_covered_quiets(gen, i) ==
    IF i > Len(gen.quiets) THEN 0
    ELSE (IF gen.quiets[i].from \in gen.orig_mask
          THEN pop_count(gen.quiets[i].moves \cap gen.dest_mask)
               * (IF gen.quiets[i].from \in gen.promotion_mask THEN 4 ELSE 1)
          ELSE 0)
         + sum_covered_quiets(gen, i + 1)

MoveGenMasked_len(gen) ==
    sum_covered_quiets(gen, 1)
    + Cardinality({i \in 1 .. Len(gen.specials) : is_covered(gen, gen.specials[i])})

MoveGenMasked_contains(gen, mv) ==
    IF mv.flag.kind = "Quiet"
    THEN \E i \in 1 .. Len(gen.quiets) : gen.quiets[i].from = mv.from /\ mv.to \in gen.quiets[i].moves
    ELSE \E i \in 1 .. Len(gen.specials) : gen.specials[i] = mv

---------------------------------------------------------------------------
(* state.rs: legal moves, move application, results *)

legal_moves(b) == new_from(b)

legal_moves_from(b, sq) == set_origin_mask(MoveGenMasked_from(legal_moves(b)), single(sq))

legal_captures(b) == set_destination_mask(MoveGenMasked_from(legal_moves(b)), opponent_color(b))

legal_moves_of(b, ptype) == set_origin_mask(MoveGenMasked_from(legal_moves(b)), own_piece_type(b, ptype))

is_move_legal(b, mv) == MoveGen_contains(legal_moves(b), mv)

num_moves(b) == MoveGen_len(legal_moves(b))

\* remove_right_for taking both rights of a colour for its rooks' squares too.
remove_right_for_either_side(b, sq) ==
    CASE sq \in {A1, E1, H1} -> remove_rights(b, White)
      [] sq \in {A8, E8, H8} -> remove_rights(b, Black)
      [] OTHER -> b

remove_right_for(b, sq) ==
    CASE sq = H1 -> remove_right(b, White, Side_King)
      [] sq = E1 -> remove_rights(b, White)
      [] sq = A1 -> remove_right(b, White, Side_Queen)
      [] sq = H8 -> remove_right(b, Black, Side_King)
      [] sq = E8 -> remove_rights(b, Black)
      [] sq = A8 -> remove_right(b, Black, Side_Queen)
      [] OTHER -> b

update_meta_with(b, mv) ==
    LET b1 == remove_right_for(remove_right_for(b, mv.from), mv.to)
        moved == type_moved_by(b1, mv)
        b2 == [b1 EXCEPT !.ep_target =
                  IF is_double_push(mv, b1.turn) /\ moved = {Pawn}
                  THEN {square_shift(mv.from, of_pawns(b1.turn))}
                  ELSE {}]
    IN IF captured_by(b2, mv) # {} \/ moved = {Pawn}
       THEN [b2 EXCEPT !.last_cap_or_push = num_moves_played(b2)]
       ELSE b2

\* The unwrap, expect, assert and panic! calls of apply_move, and the index
\* out of bounds of update_attacks when the king of the side to move next has
\* been taken: king_square() is then Square(64), past the end of RAYS.
apply_move_panics(b, mv) ==
    /\ ~is_none(mv)
    /\ \/ piece_at(b, mv.from) = {}
       \/ piece_at(b, mv.to) = {Piece(opponent(b.turn), King)}
       \/ color_at(b, mv.from) # {b.turn}
       \/ \E cap \in piece_at(b, mv.to) : cap.color = b.turn
       \/ /\ mv.flag.kind = "EnPassant"
          /\ \/ mv.flag.arg = mv.to
             \/ mv.flag.arg = mv.from
             \/ piece_at(b, mv.flag.arg) # {Piece(opponent(b.turn), Pawn)}
       \/ /\ mv.flag.kind = "Promotion"
          /\ \/ piece_type_at(b, mv.from) # {Pawn}
             \/ ~can_be_promotion(promotion_ptype(mv.flag))
       \/ /\ mv.flag.kind = "Castling"
          /\ piece_type_at(b, mv.from) # {King}

apply_flag(b, mv, moved) ==
    CASE mv.flag.kind = "EnPassant" ->
            remove_piece(b, Piece(opponent(b.turn), Pawn), mv.flag.arg)
      [] mv.flag.kind = "Promotion" ->
            add_piece(remove_piece(b, moved, mv.to), Piece(b.turn, promotion_ptype(mv.flag)), mv.to)
      [] mv.flag.kind = "Castling" ->
            LET rc == rook_castling_coords(b.turn, castling_side(mv.flag))
            IN move_piece(b, Piece(b.turn, Rook), rc[1], rc[2])
      [] OTHER -> b

apply_move(b, mv) ==
    IF is_none(mv) THEN b
    ELSE LET b1 == update_meta_with(b, mv)
             moved == CHOOSE pc \in piece_at(b1, mv.from) : TRUE
             b2 == IF piece_at(b1, mv.to) # {}
                   THEN remove_piece(b1, CHOOSE cap \in piece_at(b1, mv.to) : TRUE, mv.to)
                   ELSE b1
             b3 == move_piece(b2, moved, mv.from, mv.to)
             b4 == apply_flag(b3, mv, moved)
             b5 == IF b4.turn = Black THEN [b4 EXCEPT !.half_move_clock = @ + 1] ELSE b4
         IN update_attacks([b5 EXCEPT !.turn = opponent(@)])

play_move(b, mv) == apply_move(b, mv)

is_finished(b) == num_moves(b) = 0

\* in_checkmate with the test of the check negated.
in_checkmate_negated(b) == is_finished(b) /\ ~in_check(b)

in_checkmate(b) == is_finished(b) /\ in_check(b)

in_stalemate(b) == is_finished(b) /\ ~in_check(b)

\* is_material_insufficient looking at the number of pieces alone.
is_material_insufficient_by_count(b) == pop_count(occupied(b)) <= 3

is_material_insufficient(b) ==
    LET n == pop_count(occupied(b))
        w_b == of_color_and_type(b, White, Bishop)
        b_b == of_color_and_type(b, Black, Bishop)
    IN CASE n = 2 -> TRUE
         [] n = 3 -> pop_count(piece_type(b, Knight)) = 1 \/ pop_count(piece_type(b, Bishop)) = 1
         [] n = 4 -> /\ pop_count(w_b) = 1
                     /\ pop_count(b_b) = 1
                     /\ is_dark(scan_forward(w_b)) = is_dark(scan_forward(b_b))
         [] OTHER -> FALSE

\* can_claim_draw_with counting the fifty moves in full moves.
can_claim_draw_with_full_moves(b, dt) ==
    CASE dt = "Agreement" -> TRUE
      [] dt = "FiftyMoveRule" -> b.half_move_clock - b.last_cap_or_push > 50
      [] dt = "InsufficientMaterial" -> is_material_insufficient(b)
      [] dt = "Stalemate" -> FALSE
      [] dt = "ThreefoldRepetition" -> FALSE

can_claim_draw_with(b, dt) ==
    CASE dt = "Agreement" -> TRUE
      [] dt = "FiftyMoveRule" -> num_moves_played(b) - b.last_cap_or_push > 50
      [] dt = "InsufficientMaterial" -> is_material_insufficient(b)
      [] dt = "Stalemate" -> FALSE
      [] dt = "ThreefoldRepetition" -> FALSE

can_claim_draw(b) ==
    can_claim_draw_with(b, "FiftyMoveRule") \/ can_claim_draw_with(b, "InsufficientMaterial")

get_result(b) ==
    IF is_finished(b)
    THEN (IF in_check(b) THEN <<"Win", opponent(b.turn), "Checkmate">> ELSE <<"Draw", "Stalemate">>)
    ELSE IF can_claim_draw_with(b, "FiftyMoveRule") THEN <<"Draw", "FiftyMoveRule">>
    ELSE IF can_claim_draw_with(b, "InsufficientMaterial") THEN <<"Draw", "InsufficientMaterial">>
    ELSE <<"NoResult">>

---------------------------------------------------------------------------
(* game.rs: Game. The last element of boards is the current board; every
   method that reads it unwraps boards.last(). *)

NoResult == <<"NoResult">>

Game_from_board(b) ==
    [boards |-> <<b>>, moves |-> <<>>, hashes |-> <<zobrist_hash(b)>>, result |-> NoResult]

Game_new == Game_from_board(Board_new)

Game_board(g) == g.boards[Len(g.boards)]

Game_is_finished(g) == g.result # NoResult \/ is_finished(Game_board(g))

\* The result field after a move: set when the game is finished.
Game_result_of(g) == IF Game_is_finished(g) THEN get_result(Game_board(g)) ELSE g.result

\* play_move once its assertion has passed.
Game_play_move(g, mv) ==
    [boards |-> Append(g.boards, play_move(Game_board(g), mv)),
     moves |-> Append(g.moves, mv),
     hashes |-> Append(g.hashes, zobrist_hash(Game_board(g))),
     result |-> Game_result_of([g EXCEPT !.boards = Append(@, play_move(Game_board(g), mv))])]

\* Vec::pop
pop(v) == IF v = <<>> THEN v ELSE SubSeq(v, 1, Len(v) - 1)

Game_undo_last_move(g) == [g EXCEPT !.boards = pop(@), !.moves = pop(@)]

Game_in_stalemate(g) == ~in_stalemate(Game_board(g))

\* hashes.iter().filter(|&x| *x == h).count()
RECURSIVE count(_, _)
count(hashes, h) ==
    IF hashes = <<>> THEN 0
    ELSE (IF Head(hashes) = h THEN 1 ELSE 0) + count(Tail(hashes), h)

Game_can_claim_draw_with(g, dt) ==
    IF dt = "ThreefoldRepetition"
    THEN count(g.hashes, g.hashes[Len(g.hashes)]) >= 3
    ELSE can_claim_draw_with(Game_board(g), dt)

---------------------------------------------------------------------------
(* Text: a string is a sequence of one-character strings. *)

UPPERCASE == <<"A", "B", "C", "D", "E", "F", "G", "H", "I", "J", "K", "L", "M",
               "N", "O", "P", "Q", "R", "S", "T", "U", "V", "W", "X", "Y", "Z">>

LOWERCASE == <<"a", "b", "c", "d", "e", "f", "g", "h", "i", "j", "k", "l", "m",
               "n", "o", "p", "q", "r", "s", "t", "u", "v", "w", "x", "y", "z">>

DIGITS == <<"0", "1", "2", "3", "4", "5", "6", "7", "8", "9">>

index_in(chars, c) == IF \E i \in 1 .. Len(chars) : chars[i] = c
                      THEN CHOOSE i \in 1 .. Len(chars) : chars[i] = c
                      ELSE 0

is_uppercase(c) == index_in(UPPERCASE, c) # 0

to_ascii_uppercase(c) == IF index_in(LOWERCASE, c) # 0 THEN UPPERCASE[index_in(LOWERCASE, c)] ELSE c

to_ascii_lowercase(c) == IF index_in(UPPERCASE, c) # 0 THEN LOWERCASE[index_in(UPPERCASE, c)] ELSE c

\* char::is_digit(radix)
is_digit(c, radix) == index_in(DIGITS, c) # 0 /\ index_in(DIGITS, c) <= radix

digit_value(c) == index_in(DIGITS, c) - 1

\* u32 to_string
RECURSIVE to_string(_)
to_string(n) == IF n < 10 THEN <<DIGITS[n + 1]>>
                ELSE to_string(n \div 10) \o <<DIGITS[(n % 10) + 1]>>

RECURSIVE digits_value(_)
digits_value(str) == IF str = <<>> THEN 0
                     ELSE digits_value(SubSeq(str, 1, Len(str) - 1)) * 10 + digit_value(str[Len(str)])

\* str::parse::<u32>(): Err is {}
parse(str) == IF str # <<>> /\ \A i \in 1 .. Len(str) : is_digit(str[i], 10)
              THEN {digits_value(str)}
              ELSE {}

\* str::split(sep)
RECURSIVE split(_, _)
split(str, sep) ==
    LET at == index_in(str, sep)
    IN IF at = 0 THEN <<str>>
       ELSE <<SubSeq(str, 1, at - 1)>> \o split(SubSeq(str, at + 1, Len(str)), sep)

non_empty(str) == str # <<>>

split_whitespace(str) == SelectSeq(split(str, " "), non_empty)

\* char_enum_conversions! for Color and PieceType
Color_to_char(col) == IF col = White THEN "w" ELSE "b"

Color_try_from(c) == IF c = "w" THEN {White} ELSE IF c = "b" THEN {Black} ELSE {}

PieceType_to_char(ptype) == <<"P", "N", "B", "R", "Q", "K">>[ptype_index(ptype) + 1]

PieceType_try_from(c) == {ptype \in PieceTypes : PieceType_to_char(ptype) = c}

Piece_to_char(pc) ==
    IF pc.color = Black THEN to_ascii_lowercase(PieceType_to_char(pc.ptype))
    ELSE PieceType_to_char(pc.ptype)

Piece_try_from(c) ==
    {Piece(IF is_uppercase(c) THEN White ELSE Black, ptype) :
        ptype \in PieceType_try_from(to_ascii_uppercase(c))}

Rank_to_char(r) == DIGITS[r + 2]

Rank_from_char(c) == IF index_in(DIGITS, c) \in 2 .. 9 THEN {index_in(DIGITS, c) - 2} ELSE {}

File_to_char(f) == LOWERCASE[f + 1]

File_from_char(c) == IF index_in(LOWERCASE, c) \in 1 .. 8 THEN {index_in(LOWERCASE, c) - 1} ELSE {}

san(sq) == <<File_to_char(file(sq)), Rank_to_char(rank(sq))>>

from_san(str) ==
    IF Len(str) # 2 THEN {}
    ELSE {Square_new(r, f) : <<r, f>> \in Rank_from_char(to_ascii_lowercase(str[2]))
                                          \X File_from_char(to_ascii_lowercase(str[1]))}

---------------------------------------------------------------------------
(* state.rs: FEN *)

RECURSIVE to_fen_row(_, _, _, _)
to_fen_row(b, r, f, num_empty) ==
    IF f > 7 THEN (IF num_empty > 0 THEN to_string(num_empty) ELSE <<>>)
    ELSE LET at == piece_at(b, Square_new(r, f))
         IN IF at # {}
            THEN (IF num_empty > 0 THEN to_string(num_empty) ELSE <<>>)
                 \o <<Piece_to_char(CHOOSE pc \in at : TRUE)>>
                 \o to_fen_row(b, r, f + 1, 0)
            ELSE to_fen_row(b, r, f + 1, num_empty + 1)

RECURSIVE to_fen_rows(_, _)
to_fen_rows(b, r) ==
    to_fen_row(b, r, 0, 0) \o (IF r # 0 THEN <<"/">> \o to_fen_rows(b, r - 1) ELSE <<>>)

to_fen_rights(b) ==
    IF b.rights = NO_PLAYERS_RIGHTS THEN <<"-">>
    ELSE LET letters(player) ==
                 (IF ~has_right(b, player, Side_King) THEN <<Piece_to_char(Piece(player, King))>> ELSE <<>>)
                 \o (IF ~has_right(b, player, Side_Queen) THEN <<Piece_to_char(Piece(player, Queen))>> ELSE <<>>)
         IN letters(PLAYERS[1]) \o letters(PLAYERS[2])

to_fen(b) ==
    to_fen_rows(b, 7)
    \o <<" ", Color_to_char(b.turn), " ">>
    \o to_fen_rights(b)
    \o <<" ">>
    \o (IF b.ep_target # {} THEN san(CHOOSE sq \in b.ep_target : TRUE) ELSE <<"-">>)
    \o <<" ">> \o to_string(b.half_move_clock)
    \o <<" ">> \o to_string(num_moves_played(b))

\* The placement loops of from_fen: Err is {}.
RECURSIVE from_fen_row(_, _, _, _)
from_fen_row(b, r, f, row) ==
    IF row = <<>> THEN {b}
    ELSE IF is_digit(Head(row), 9)
         THEN from_fen_row(b, r, f + digit_value(Head(row)), Tail(row))
         ELSE IF Piece_try_from(Head(row)) = {} THEN {}
              ELSE from_fen_row(add_piece(b, CHOOSE pc \in Piece_try_from(Head(row)) : TRUE, Square_new(r, f)),
                                r, f + 1, Tail(row))

RECURSIVE from_fen_rows(_, _, _)
from_fen_rows(b, r, rows) ==
    IF rows = <<>> THEN {b}
    ELSE LET done == from_fen_row(b, r - 1, 0, Head(rows))
         IN IF done = {} THEN {}
            ELSE from_fen_rows(CHOOSE next \in done : TRUE, r - 1, Tail(rows))

\* The castling field of from_fen: a record of the rights, or {} for Err.
RECURSIVE from_fen_rights(_, _)
from_fen_rights(b, field) ==
    IF field = <<>> THEN {b}
    ELSE CASE Head(field) = "K" -> from_fen_rights(add_right(b, White, Side_King), Tail(field))
           [] Head(field) = "Q" -> from_fen_rights(add_right(b, White, Side_Queen), Tail(field))
           [] Head(field) = "k" -> from_fen_rights(add_right(b, Black, Side_King), Tail(field))
           [] Head(field) = "q" -> from_fen_rights(add_right(b, Black, Side_Queen), Tail(field))
           [] Head(field) = "-" -> {b}
           [] OTHER -> {}

from_fen(fen) ==
    LET items == split_whitespace(fen)
        placed == from_fen_rows(Board_default, 8, split(items[1], "/"))
        turns == Color_try_from(items[2][1])
        b1 == update_attacks([(CHOOSE p \in placed : TRUE) EXCEPT !.turn = CHOOSE col \in turns : TRUE])
        righted == from_fen_rights([b1 EXCEPT !.rights = NO_PLAYERS_RIGHTS], items[3])
        b2 == CHOOSE p \in righted : TRUE
        sq_data == items[4]
        targets == from_san(sq_data)
        hmc == IF parse(items[5]) # {} THEN CHOOSE n \in parse(items[5]) : TRUE ELSE 1
    IN IF Len(items) # 6 THEN {}
       ELSE IF placed = {} \/ turns = {} THEN {}
       ELSE IF righted = {} THEN {}
       ELSE IF sq_data # <<"-">> /\ targets = {} THEN {}
       ELSE {[b2 EXCEPT !.ep_target = IF sq_data = <<"-">> THEN {} ELSE targets,
                        !.half_move_clock = hmc,
                        !.last_cap_or_push = hmc * 2]}

\* The builds of the library: with the overflow checks of a debug build, or
\* wrapping as a release build does.
Builds == {"debug", "release"}

\* a + b on u8: {} where the build panics on the overflow.
add_u8(a, b, build) ==
    IF a + b <= 255 THEN {a + b}
    ELSE IF build = "debug" THEN {} ELSE {(a + b) % 256}

\* How the placement loop of from_fen ends for one row: "Ok", "Err" (the ?
\* on Piece::try_from) or "Panic". A piece set on a square index of 64 or
\* more panics in add_piece: 1u64 << sq with the overflow checks, and the
\* index of HASH_PIECE out of bounds without them.
RECURSIVE from_fen_row_outcome(_, _, _, _)
from_fen_row_outcome(r, f, row, build) ==
    IF row = <<>> THEN "Ok"
    ELSE IF is_digit(Head(row), 9)
         THEN IF add_u8(f, digit_value(Head(row)), build) = {} THEN "Panic"
              ELSE from_fen_row_outcome(r, CHOOSE n \in add_u8(f, digit_value(Head(row)), build) : TRUE,
                                        Tail(row), build)
         ELSE IF add_u8((r * 8) % 256, f, build) = {} THEN "Panic"
         ELSE IF Piece_try_from(Head(row)) = {} THEN "Err"
         ELSE IF (CHOOSE n \in add_u8((r * 8) % 256, f, build) : TRUE) >= NUM_SQUARES THEN "Panic"
         ELSE IF add_u8(f, 1, build) = {} THEN "Panic"
         ELSE from_fen_row_outcome(r, CHOOSE n \in add_u8(f, 1, build) : TRUE, Tail(row), build)

\* for row in board_data.split('/') { r.0 -= 1; ... }
RECURSIVE from_fen_rows_outcome(_, _, _)
from_fen_rows_outcome(r, rows, build) ==
    IF rows = <<>> THEN "Ok"
    ELSE IF r = 0 /\ build = "debug" THEN "Panic"
    ELSE IF from_fen_row_outcome((r + 255) % 256, 0, Head(rows), build) # "Ok"
         THEN from_fen_row_outcome((r + 255) % 256, 0, Head(rows), build)
         ELSE from_fen_rows_outcome((r + 255) % 256, Tail(rows), build)

\* Whether from_fen(fen) panics instead of returning.
from_fen_panics(fen, build) ==
    /\ Len(split_whitespace(fen)) = 6
    /\ from_fen_rows_outcome(8, split(split_whitespace(fen)[1], "/"), build) = "Panic"

---------------------------------------------------------------------------
(* builder.rs and Board::is_valid *)

Builder_new ==
    [pieces |-> [ptype \in PieceTypes |-> EMPTY],
     colors |-> [col \in Colors |-> EMPTY],
     turn |-> White,
     hash |-> INITIAL_HASH,
     half_move_clock |-> 0,
     rights |-> NO_PLAYERS_RIGHTS]

Builder_piece(bld, pc, sq) ==
    IF sq \notin bld.pieces[pc.ptype]
    THEN [bld EXCEPT !.pieces[pc.ptype] = @ \cup single(sq),
                     !.colors[pc.color] = @ \cup single(sq),
                     !.hash = xor(@, hash_piece(pc, sq))]
    ELSE bld

Builder_turn(bld, col) == [bld EXCEPT !.turn = col]

is_color_valid(b, col) ==
    LET cnt(ptype) == pop_count(piece_type(b, ptype) \cap color(b, col))
    IN /\ cnt(Pawn) <= 8
       /\ cnt(Knight) <= 10
       /\ cnt(Bishop) <= 10
       /\ cnt(Rook) <= 10
       /\ cnt(Queen) <= 9
       /\ cnt(King) = 1

is_valid(b) ==
    LET bb == UNION {piece_type(b, ptype) : ptype \in PieceTypes}
        opp == opponent(b.turn)
        ksq == king_square_of(b, opp)
    IN /\ is_color_valid(b, Black) /\ is_color_valid(b, White)
       /\ ~intersects(color(b, Black), color(b, White))
       /\ \A i, j \in 1 .. 6 : i < j => ~intersects(piece_type(b, ALL_PIECE_TYPES[i]), piece_type(b, ALL_PIECE_TYPES[j]))
       /\ empty(b) \cup bb = FULL
       /\ is_safe(b, ksq, opp)
       /\ ksq \notin of_king(king_square(b), own_color(b))
       /\ \A passed_sq \in b.ep_target : passed_sq \in opponent_piece_type(b, Pawn)
       /\ \A col \in Colors : \A side \in Sides :
             has_right(b, col, side) =>
                /\ castling_coords(col, side, King)[1] \in of_color_and_type(b, col, King)
                /\ castling_coords(col, side, Rook)[1] \in of_color_and_type(b, col, Rook)

\* Builder::build: None is {}
Builder_build(bld) ==
    LET b == [pieces |-> bld.pieces,
              colors |-> bld.colors,
              hash |-> bld.hash,
              turn |-> bld.turn,
              half_move_clock |-> bld.half_move_clock,
              ep_target |-> {},
              rights |-> bld.rights,
              last_cap_or_push |-> bld.half_move_clock * 2,
              checkers |-> EMPTY,
              pinned |-> EMPTY]
    IN IF ~is_valid(b) THEN {} ELSE {rehash(b)}

---------------------------------------------------------------------------
(* The rules of chess, stated on board coordinates and independently of the
   attack tables and of the generator: the reference the generator is
   compared with. *)

rules_offset(sq, df, dr) ==
    IF file(sq) + df \in 0 .. 7 /\ rank(sq) + dr \in 0 .. 7
    THEN {Square_new(rank(sq) + dr, file(sq) + df)}
    ELSE {}

rules_steps(sq, deltas) == UNION {rules_offset(sq, d[1], d[2]) : d \in deltas}

\* The squares passed by a slider leaving sq in direction d, first blocker included.
RECURSIVE rules_slide(_, _, _)
rules_slide(sq, d, occ) ==
    LET next == rules_offset(sq, d[1], d[2])
    IN IF next = {} \/ next \cap occ # {} THEN next
       ELSE next \cup rules_slide(CHOOSE n \in next : TRUE, d, occ)

rules_knight_steps == {<<1, 2>>, <<2, 1>>, <<2, 0 - 1>>, <<1, 0 - 2>>,
                       <<0 - 1, 0 - 2>>, <<0 - 2, 0 - 1>>, <<0 - 2, 1>>, <<0 - 1, 2>>}

rules_king_steps == {<<1, 0>>, <<1, 1>>, <<0, 1>>, <<0 - 1, 1>>,
                     <<0 - 1, 0>>, <<0 - 1, 0 - 1>>, <<0, 0 - 1>>, <<1, 0 - 1>>}

rules_bishop_dirs == {<<1, 1>>, <<0 - 1, 1>>, <<0 - 1, 0 - 1>>, <<1, 0 - 1>>}

rules_rook_dirs == {<<1, 0>>, <<0, 1>>, <<0 - 1, 0>>, <<0, 0 - 1>>}

rules_forward(col) == IF col = White THEN 1 ELSE 0 - 1

rules_slides(sq, dirs, occ) == UNION {rules_slide(sq, d, occ) : d \in dirs}

\* Whether a piece of `by`, in the placement pl, attacks sq.
rules_attacked(pl, sq, by) ==
    LET occ == pl.colors[White] \cup pl.colors[Black]
        of(ptype) == pl.pieces[ptype] \cap pl.colors[by]
    IN \/ rules_steps(sq, rules_knight_steps) \cap of(Knight) # {}
       \/ rules_steps(sq, rules_king_steps) \cap of(King) # {}
       \/ rules_steps(sq, {<<1, 0 - rules_forward(by)>>, <<0 - 1, 0 - rules_forward(by)>>}) \cap of(Pawn) # {}
       \/ rules_slides(sq, rules_bishop_dirs, occ) \cap (of(Bishop) \cup of(Queen)) # {}
       \/ rules_slides(sq, rules_rook_dirs, occ) \cap (of(Rook) \cup of(Queen)) # {}

rules_pawn_moves(b, from) ==
    LET occ == b.colors[White] \cup b.colors[Black]
        fwd == rules_forward(b.turn)
        one == rules_offset(from, 0, fwd) \ occ
        two == IF one # {} /\ rank(from) = (IF b.turn = White THEN 1 ELSE 6)
               THEN rules_offset(from, 0, 2 * fwd) \ occ ELSE {}
        diag == rules_steps(from, {<<1, fwd>>, <<0 - 1, fwd>>})
        dests == one \cup two \cup (diag \cap b.colors[opponent(b.turn)])
        last == IF b.turn = White THEN 7 ELSE 0
    IN {Move_quiet(from, to) : to \in {d \in dests : rank(d) # last}}
       \cup {Move_promotion(from, to, ptype) :
                <<to, ptype>> \in {d \in dests : rank(d) = last} \X {Knight, Bishop, Rook, Queen}}
       \cup {Move_en_passant(from, to, Square_new(rank(from), file(to))) : to \in diag \cap b.ep_target}

rules_castlings(b) ==
    LET occ == b.colors[White] \cup b.colors[Black]
        home == IF b.turn = White THEN 0 ELSE 7
        enemy == opponent(b.turn)
        ok(side, rook_file, empties, passed) ==
            /\ b.rights[b.turn][side]
            /\ Square_new(home, 4) \in b.pieces[King] \cap b.colors[b.turn]
            /\ Square_new(home, rook_file) \in b.pieces[Rook] \cap b.colors[b.turn]
            /\ \A f \in empties : Square_new(home, f) \notin occ
            /\ \A f \in passed : ~rules_attacked(b, Square_new(home, f), enemy)
    IN (IF ok(Side_King, 7, {5, 6}, {4, 5, 6}) THEN {Move_castling(b.turn, Side_King)} ELSE {})
       \cup (IF ok(Side_Queen, 0, {1, 2, 3}, {4, 3, 2}) THEN {Move_castling(b.turn, Side_Queen)} ELSE {})

rules_pseudo_legal(b) ==
    LET occ == b.colors[White] \cup b.colors[Black]
        own == b.colors[b.turn]
        of(ptype) == b.pieces[ptype] \cap own
        quiets(froms, dests(_)) == UNION {{Move_quiet(from, to) : to \in dests(from) \ own} : from \in froms}
        knight(from) == rules_steps(from, rules_knight_steps)
        king(from) == rules_steps(from, rules_king_steps)
        bishop(from) == rules_slides(from, rules_bishop_dirs, occ)
        rook(from) == rules_slides(from, rules_rook_dirs, occ)
        queen(from) == bishop(from) \cup rook(from)
    IN quiets(of(Knight), knight) \cup quiets(of(King), king) \cup quiets(of(Bishop), bishop)
       \cup quiets(of(Rook), rook) \cup quiets(of(Queen), queen)
       \cup UNION {rules_pawn_moves(b, from) : from \in of(Pawn)}
       \cup rules_castlings(b)

\* The placement after a move, by the rules.
rules_after(b, mv) ==
    LET me == b.turn
        moved == CHOOSE ptype \in PieceTypes : mv.from \in b.pieces[ptype]
        landing == IF mv.flag.kind = "Promotion" THEN promotion_ptype(mv.flag) ELSE moved
        taken == {mv.to} \cup (IF mv.flag.kind = "EnPassant" THEN {mv.flag.arg} ELSE {})
        home == IF me = White THEN 0 ELSE 7
        rook_from == IF mv.flag.kind # "Castling" THEN {}
                     ELSE IF file(mv.to) = 6 THEN {Square_new(home, 7)} ELSE {Square_new(home, 0)}
        rook_to == IF mv.flag.kind # "Castling" THEN {}
                   ELSE IF file(mv.to) = 6 THEN {Square_new(home, 5)} ELSE {Square_new(home, 3)}
    IN [pieces |-> [ptype \in PieceTypes |->
                      ((b.pieces[ptype] \ ({mv.from} \cup taken \cup rook_from))
                       \cup (IF ptype = landing THEN {mv.to} ELSE {}))
                      \cup (IF ptype = Rook THEN rook_to ELSE {})],
        colors |-> [col \in Colors |->
                      IF col = me THEN ((b.colors[col] \ ({mv.from} \cup rook_from)) \cup {mv.to}) \cup rook_to
                      ELSE b.colors[col] \ taken]]

rules_legal(b) ==
    {mv \in rules_pseudo_legal(b) :
        LET after == rules_after(b, mv)
        IN \A ksq \in after.pieces[King] \cap after.colors[b.turn] :
              ~rules_attacked(after, ksq, opponent(b.turn))}

---------------------------------------------------------------------------
(* tests/perft.rs *)

RECURSIVE explore(_, _)
explore(b, depth) ==
    IF depth = 1 THEN num_moves(b)
    ELSE LET yielded == MoveGen_iter(legal_moves(b))
             \* n += explore(...) over yielded[lo .. hi], added up by halves
             RECURSIVE sum(_, _)
             sum(lo, hi) ==
                 IF lo > hi THEN 0
                 ELSE IF lo = hi THEN explore(play_move(b, yielded[lo]), depth - 1)
                 ELSE sum(lo, (lo + hi) \div 2) + sum((lo + hi) \div 2 + 1, hi)
         IN sum(1, Len(yielded))

---------------------------------------------------------------------------
(* The games played: where each starts, the moves scripted for it and the
   number of freely chosen moves that follow. *)

StartPlies == 2

TailPlies == 1

ShufflePlies == 101

FEN_PASSANT_BISHOP == <<"8", "/", "5", "b", "k", "1", "/", "8", "/", "2", "P", "p", "4", "/", "8", "/", "1", "K", "6", "/", "8", "/", "8", " ", "w", " ", "-", " ", "d", "6", " ", "0", " ", "1">>

FEN_PASSANT_RANK == <<"8", "/", "8", "/", "8", "/", "K", "2", "p", "P", "2", "r", "/", "8", "/", "8", "/", "8", "/", "7", "k", " ", "w", " ", "-", " ", "d", "6", " ", "0", " ", "1">>

FEN_PASSANT_CHECKER == <<"8", "/", "8", "/", "8", "/", "3", "p", "P", "3", "/", "4", "K", "3", "/", "8", "/", "8", "/", "7", "k", " ", "w", " ", "-", " ", "d", "6", " ", "0", " ", "1">>

FEN_ROOKS == <<"r", "3", "k", "2", "r", "/", "8", "/", "8", "/", "8", "/", "8", "/", "8", "/", "8", "/", "R", "3", "K", "2", "R">>

SCRIPTS ==
    [scholar |-> <<<<"e", "2", "e", "4">>, <<"e", "7", "e", "5">>, <<"d", "1", "h", "5">>, <<"b", "8", "c", "6">>, <<"f", "1", "c", "4">>, <<"g", "8", "f", "6">>, <<"h", "5", "f", "7">>>>,
     pin |-> <<<<"d", "2", "d", "3">>, <<"c", "7", "c", "6">>, <<"c", "1", "d", "2">>, <<"d", "8", "a", "5">>>>,
     passant |-> <<<<"e", "2", "e", "4">>, <<"a", "7", "a", "6">>, <<"e", "4", "e", "5">>, <<"d", "7", "d", "5">>, <<"e", "5", "d", "6">>>>,
     castle |-> <<<<"e", "2", "e", "4">>, <<"e", "7", "e", "5">>, <<"g", "1", "f", "3">>, <<"g", "8", "f", "6">>, <<"f", "1", "c", "4">>, <<"f", "8", "c", "5">>, <<"e", "1", "g", "1">>, <<"e", "8", "g", "8">>>>,
     promote |-> <<<<"h", "2", "h", "4">>, <<"g", "7", "g", "5">>, <<"h", "4", "g", "5">>, <<"h", "7", "h", "6">>, <<"g", "5", "h", "6">>, <<"g", "8", "f", "6">>, <<"h", "6", "h", "7">>, <<"f", "6", "g", "8">>, <<"h", "7", "g", "8">>>>,
     shuffle |-> <<<<"e", "2", "e", "4">>, <<"d", "7", "d", "5">>, <<"e", "4", "d", "5">>>>,
     cycle |-> <<<<"g", "8", "f", "6">>, <<"g", "1", "f", "3">>, <<"f", "6", "g", "8">>, <<"f", "3", "g", "1">>>>]

FromNew == {"start", "scholar", "pin", "passant", "castle", "promote", "shuffle"}

FromFen == {"passant_bishop", "passant_rank", "passant_checker", "rights", "rooks"}

Lines == FromNew \cup FromFen \cup {"builder", "default"}

script_len(l) ==
    CASE l = "shuffle" -> Len(SCRIPTS.shuffle) + ShufflePlies
      [] l \in {"scholar", "pin", "passant", "castle", "promote"} -> Len(SCRIPTS[l])
      [] OTHER -> 0

\* The n-th scripted move of a line, as written: origin and destination.
scripted(l, n) ==
    IF l = "shuffle"
    THEN IF n <= Len(SCRIPTS.shuffle) THEN SCRIPTS.shuffle[n]
         ELSE SCRIPTS.cycle[((n - Len(SCRIPTS.shuffle) - 1) % 4) + 1]
    ELSE SCRIPTS[l][n]

free_plies(l) ==
    CASE l = "start" -> StartPlies
      [] l \in {"shuffle", "rights", "default"} -> 0
      [] OTHER -> TailPlies

\* Whether the line lets mv be played as its next move.
allowed(l, n, mv) ==
    IF n < script_len(l)
    THEN /\ {mv.from} = from_san(SubSeq(scripted(l, n + 1), 1, 2))
         /\ {mv.to} = from_san(SubSeq(scripted(l, n + 1), 3, 4))
    ELSE n < script_len(l) + free_plies(l)

fen_text(placement, turn, rights, target) ==
    placement \o <<" ", Color_to_char(turn), " ">>
    \o (IF rights = <<>> THEN <<"-">> ELSE rights)
    \o <<" ">> \o target \o <<" ", "0", " ", "1">>

\* The castling field naming exactly the given rights, in the order KQkq.
rights_text(wk, wq, bk, bq) ==
    (IF wk THEN <<"K">> ELSE <<>>) \o (IF wq THEN <<"Q">> ELSE <<>>)
    \o (IF bk THEN <<"k">> ELSE <<>>) \o (IF bq THEN <<"q">> ELSE <<>>)

\* Builder boards: the two kings and at most one more piece, and the board
\* of a rook giving check to a king that has a knight.
BUILDER_KINGS == Builder_piece(Builder_piece(Builder_new, Piece(White, King), 19), Piece(Black, King), 45)

BUILDER_SQUARES == {49, 14, 43}

BUILDER_CHECKED == Builder_piece(Builder_piece(BUILDER_KINGS, Piece(Black, Rook), 43), Piece(White, Knight), 14)

BuilderBoards ==
    UNION {Builder_build(Builder_turn(bld, col)) :
             <<bld, col>> \in ({BUILDER_KINGS, BUILDER_CHECKED}
                               \cup {Builder_piece(BUILDER_KINGS, ALL_PIECES[i], sq) :
                                       <<i, sq>> \in {j \in 1 .. 12 : ALL_PIECES[j].ptype # King} \X BUILDER_SQUARES})
                              \X Colors}

StartBoards(l) ==
    CASE l \in FromNew -> {Board_new}
      [] l = "passant_bishop" -> from_fen(FEN_PASSANT_BISHOP)
      [] l = "passant_rank" -> from_fen(FEN_PASSANT_RANK)
      [] l = "passant_checker" -> from_fen(FEN_PASSANT_CHECKER)
      [] l = "rights" ->
            UNION {from_fen(fen_text(FEN_ROOKS, col, rights_text(r[1], r[2], r[3], r[4]), <<"-">>)) :
                     <<col, r>> \in Colors \X (BOOLEAN \X BOOLEAN \X BOOLEAN \X BOOLEAN)}
      [] l = "rooks" -> from_fen(fen_text(FEN_ROOKS, White, rights_text(TRUE, TRUE, TRUE, TRUE), <<"-">>))
      [] l = "builder" -> BuilderBoards
      [] l = "default" -> {Board_default}

Init ==
    /\ line \in Lines
    /\ board \in StartBoards(line)
    \* No move is generated on the empty board: it has no king to generate for.
    /\ legal = IF line = "default" THEN <<>> ELSE MoveGen_iter(legal_moves(board))
    /\ plies = 0
    /\ quiet_plies = 0
    /\ panicked = FALSE
    /\ text = <<>>
    /\ imported = {}
    /\ lookup = [table |-> "none"]
    /\ game = Game_new

\* board.apply_move(mv) for a move the generator yielded, then the moves of
\* the next position are generated.
ApplyMove ==
    /\ ~panicked
    /\ \E i \in 1 .. Len(legal) :
          LET mv == legal[i] IN
          /\ allowed(line, plies, mv)
          /\ IF apply_move_panics(board, mv)
             THEN /\ panicked' = TRUE
                  /\ UNCHANGED <<board, legal, plies, quiet_plies>>
             ELSE /\ board' = apply_move(board, mv)
                  /\ legal' = MoveGen_iter(legal_moves(board'))
                  /\ plies' = plies + 1
                  /\ quiet_plies' = IF mv.from \in board.pieces[Pawn] \/ mv.to \in occupied(board)
                                       \/ mv.flag.kind = "EnPassant"
                                    THEN 0 ELSE quiet_plies + 1
                  /\ UNCHANGED panicked
    /\ text' = <<>>
    /\ imported' = {}
    /\ UNCHANGED <<line, lookup, game>>

\* board.to_fen(), and Board::from_fen of the text.
Export ==
    /\ ~panicked
    /\ text = <<>>
    /\ text' = to_fen(board)
    /\ imported' = from_fen(text')
    /\ UNCHANGED <<board, legal, line, plies, quiet_plies, panicked, lookup, game>>

Next == ApplyMove \/ Export

Spec == Init /\ [][Next]_vars

---------------------------------------------------------------------------
(* The generated tables, read entry by entry: no game is played. *)

TableInit ==
    /\ line = "default"
    /\ board = Board_default
    /\ legal = <<>>
    /\ plies = 0
    /\ quiet_plies = 0
    /\ panicked = FALSE
    /\ text = <<>>
    /\ imported = {}
    /\ lookup = [table |-> "none"]
    /\ game = Game_new

\* attack::fill_line(from, to)
FillLine ==
    /\ \E from \in Squares, to \in Squares :
          lookup' = [table |-> "LINES", from |-> from, to |-> to, entry |-> fill_line(from, to)]
    /\ UNCHANGED <<board, legal, line, plies, quiet_plies, panicked, text, imported, game>>

\* PSEUDO_MOVES[ptype][from], as attack::of_knight and attack::of_king read it.
PseudoMoves ==
    /\ \E ptype \in PieceTypes, from \in Squares :
          lookup' = [table |-> "PSEUDO_MOVES", ptype |-> ptype, from |-> from,
                     entry |-> PSEUDO_MOVES[ptype][from]]
    /\ UNCHANGED <<board, legal, line, plies, quiet_plies, panicked, text, imported, game>>

TableNext == FillLine \/ PseudoMoves

Tables == TableInit /\ [][TableNext]_vars

---------------------------------------------------------------------------
(* Board::from_fen on texts from outside: no game is played. *)

FEN_START == <<"r", "n", "b", "q", "k", "b", "n", "r", "/", "p", "p", "p", "p", "p", "p", "p", "p", "/", "8", "/", "8", "/", "8", "/", "8", "/", "P", "P", "P", "P", "P", "P", "P", "P", "/", "R", "N", "B", "Q", "K", "B", "N", "R">>

FEN_UNKNOWN_PIECE == <<"r", "n", "b", "q", "k", "b", "n", "r", "/", "p", "p", "p", "p", "p", "p", "p", "p", "/", "8", "/", "8", "/", "8", "/", "8", "/", "P", "P", "P", "P", "P", "P", "P", "P", "/", "R", "N", "B", "Q", "K", "X", "N", "R">>

FEN_NINE_FILES_TOP == <<"r", "n", "b", "q", "k", "b", "n", "r", "r", "/", "p", "p", "p", "p", "p", "p", "p", "p", "/", "8", "/", "8", "/", "8", "/", "8", "/", "P", "P", "P", "P", "P", "P", "P", "P", "/", "R", "N", "B", "Q", "K", "B", "N", "R">>

FEN_NINE_FILES == <<"r", "n", "b", "q", "k", "b", "n", "r", "/", "p", "p", "p", "p", "p", "p", "p", "p", "p", "/", "8", "/", "8", "/", "8", "/", "8", "/", "P", "P", "P", "P", "P", "P", "P", "P", "/", "R", "N", "B", "Q", "K", "B", "N", "R">>

FEN_NINE_RANKS == <<"r", "n", "b", "q", "k", "b", "n", "r", "/", "p", "p", "p", "p", "p", "p", "p", "p", "/", "8", "/", "8", "/", "8", "/", "8", "/", "P", "P", "P", "P", "P", "P", "P", "P", "/", "R", "N", "B", "Q", "K", "B", "N", "R", "/", "P", "7">>

FEN_NINE_RANKS_EMPTY == <<"r", "n", "b", "q", "k", "b", "n", "r", "/", "p", "p", "p", "p", "p", "p", "p", "p", "/", "8", "/", "8", "/", "8", "/", "8", "/", "P", "P", "P", "P", "P", "P", "P", "P", "/", "R", "N", "B", "Q", "K", "B", "N", "R", "/">>

FenPlacements ==
    {FEN_START, FEN_UNKNOWN_PIECE, FEN_NINE_FILES_TOP, FEN_NINE_FILES, FEN_NINE_RANKS, FEN_NINE_RANKS_EMPTY}

FenTurns == {<<"w">>, <<"b">>, <<"x">>}

FenRights == {<<"K", "Q", "k", "q">>, <<"-">>, <<"K", "X">>}

FenTargets == {<<"-">>, <<"e", "3">>, <<"e", "9">>, <<"e">>}

FenClocks == {<<"0">>, <<"7">>}

\* The fields joined by single spaces.
RECURSIVE join_fields(_)
join_fields(fields) ==
    IF Len(fields) = 1 THEN fields[1]
    ELSE fields[1] \o <<" ">> \o join_fields(Tail(fields))

\* Texts of six fields, and the same texts short of the last field or with
\* one field more.
FenTexts ==
    LET six == {<<p, t, r, e, c, <<"1">>>> :
                  <<p, t, r, e, c>> \in FenPlacements \X FenTurns \X FenRights \X FenTargets \X FenClocks}
    IN {join_fields(fields) : fields \in six}
       \cup {join_fields(SubSeq(fields, 1, 5)) : fields \in {f \in six : f[1] = FEN_START /\ f[5] = <<"0">>}}
       \cup {join_fields(fields \o <<<<"1">>>>) : fields \in {f \in six : f[1] = FEN_START /\ f[5] = <<"0">>}}

FenInit ==
    /\ line = "default"
    /\ board = Board_default
    /\ legal = <<>>
    /\ plies = 0
    /\ quiet_plies = 0
    /\ panicked = FALSE
    /\ text = <<>>
    /\ imported = {}
    /\ lookup = [table |-> "none"]
    /\ game = Game_new

\* Board::from_fen(fen) in either build
Import ==
    /\ text = <<>>
    /\ \E fen \in FenTexts, build \in Builds :
          /\ text' = fen
          /\ lookup' = [table |-> "from_fen", build |-> build]
          /\ panicked' = from_fen_panics(fen, build)
          /\ imported' = IF from_fen_panics(fen, build) THEN {} ELSE from_fen(fen)
    /\ UNCHANGED <<board, legal, line, plies, quiet_plies, game>>

FenNext == Import

Fen == FenInit /\ [][FenNext]_vars

---------------------------------------------------------------------------
(* A Game played and taken back: the knights going out and home again, or
   the moves of the fool's mate. *)

MaxPlays == 8

GAME_MOVES ==
    [knights |-> <<<<"g", "1", "f", "3">>, <<"f", "3", "g", "1">>,
                  <<"g", "8", "f", "6">>, <<"f", "6", "g", "8">>>>,
     fool |-> <<<<"f", "2", "f", "3">>, <<"e", "7", "e", "5">>, <<"g", "2", "g", "4">>, <<"d", "8", "h", "4">>>>]

GameLines == {"knights", "fool"}

\* Whether the game lets mv be played.
game_allowed(l, mv) ==
    \E i \in 1 .. Len(GAME_MOVES[l]) :
        /\ {mv.from} = from_san(SubSeq(GAME_MOVES[l][i], 1, 2))
        /\ {mv.to} = from_san(SubSeq(GAME_MOVES[l][i], 3, 4))

GameInit ==
    /\ line \in GameLines
    /\ game = Game_new
    /\ board = Board_default
    /\ legal = <<>>
    /\ plies = 0
    /\ quiet_plies = 0
    /\ panicked = FALSE
    /\ text = <<>>
    /\ imported = {}
    /\ lookup = [table |-> "none"]

\* The moves of the game's line among the legal moves of b.
game_moves(l, yielded) == {yielded[i] : i \in {j \in 1 .. Len(yielded) : game_allowed(l, yielded[j])}}

\* game.play_move(mv) for a legal move: board() panics on an empty stack and
\* the assertion fails in a finished game.
PlayMove ==
    /\ ~panicked
    /\ Len(game.hashes) <= MaxPlays
    /\ IF game.boards = <<>>
       THEN panicked' = TRUE /\ UNCHANGED game
       ELSE \E mv \in game_moves(line, MoveGen_iter(legal_moves(Game_board(game)))) :
              IF Game_is_finished(game)
              THEN panicked' = TRUE /\ UNCHANGED game
              ELSE game' = Game_play_move(game, mv) /\ UNCHANGED panicked
    /\ UNCHANGED <<board, legal, line, plies, quiet_plies, text, imported, lookup>>

\* game.undo_last_move()
UndoLastMove ==
    /\ ~panicked
    /\ game' = Game_undo_last_move(game)
    /\ UNCHANGED <<board, legal, line, plies, quiet_plies, panicked, text, imported, lookup>>

GameNext == PlayMove \/ UndoLastMove

Games == GameInit /\ [][GameNext]_vars



yielded == {legal[i] : i \in 1 .. Len(legal)}

square(name) == CHOOSE sq \in from_san(name) : TRUE

\* Lines whose positions are valid chess positions with fresh attack caches.
Played == FromNew \cup FromFen

\* C1: in every position reached from Board::new through moves the generator
\* yielded, the six piece-type sets are pairwise disjoint, the two colour sets
\* are disjoint, and the piece-type sets and the colour sets have the same union.
C1_Occupancy ==
    line \in FromNew =>
        /\ \A p, q \in PieceTypes : p # q => board.pieces[p] \cap board.pieces[q] = {}
        /\ board.colors[White] \cap board.colors[Black] = {}
        /\ UNION {board.pieces[p] : p \in PieceTypes} = board.colors[White] \cup board.colors[Black]

\* A pawn has captured its way to g8 and been replaced by the promoted piece.
C1_Witness ==
    /\ line = "promote"
    /\ plies = script_len("promote")
    /\ square(<<"g", "8">>) \in board.colors[White] \ board.pieces[Pawn]
    /\ pop_count(occupied(board)) = 29

\* C2: every move the generator yields in a valid position, once applied with
\* apply_move, leaves the king of the side that moved not attacked.
C2_Sound ==
    line \in Played =>
        \A mv \in yielded :
            LET after == apply_move(board, mv)
            IN ~rules_attacked(after, king_square_of(after, board.turn), after.turn)

\* C3: every move that is legal under the rules of chess in a valid position
\* is yielded by the generator.
C3_Complete == line \in Played => rules_legal(board) \subseteq yielded

\* C4: perft from Board::new gives 20, 400 and 8,902 at depths 1 to 3, and
\* the reference counts at depths 4 and 5: these are the counts of the rules of
\* chess, so every position within four plies of Board::new has as many
\* generated moves as the rules allow.
C4_Perft ==
    /\ line = "start" /\ plies = 0 =>
          /\ explore(board, 1) = 20
          /\ explore(board, 2) = 400
          /\ explore(board, 3) = 8902
    /\ line \in FromNew /\ plies <= 4 => num_moves(board) = Cardinality(rules_legal(board))

\* C5: in the position imported from 8/5bk1/8/2Pp4/8/1K6/8/8 w - d6 0 1 the
\* en passant capture c5xd6 is not yielded and is_move_legal rejects it.
C5_PassantExcluded ==
    line = "passant_bishop" /\ plies = 0 =>
        LET mv == Move_en_passant(square(<<"c", "5">>), square(<<"d", "6">>), square(<<"d", "5">>))
        IN /\ mv \notin yielded
           /\ \A other \in yielded : other.flag.kind # "EnPassant"
           /\ ~is_move_legal(board, mv)

\* The capture is there to be excluded: the pawn on c5 attacks the target d6
\* left by the pawn on d5, and taking it would expose the king.
C5_Witness ==
    LET mv == Move_en_passant(square(<<"c", "5">>), square(<<"d", "6">>), square(<<"d", "5">>))
    IN /\ line = "passant_bishop"
       /\ plies = 0
       /\ board.ep_target = {square(<<"d", "6">>)}
       /\ mv \in rules_pseudo_legal(board) \ rules_legal(board)
       /\ Len(legal) = 8

\* C6: from Board::new each move of e2e4 e7e5 d1h5 b8c6 f1c4 g8f6 h5f7 is
\* accepted by is_move_legal when it is played, and after the last one there is
\* no legal move and the side to move is in check: in_checkmate, not in_stalemate.
C6_ScholarsMate ==
    line = "scholar" =>
        /\ plies < script_len("scholar") =>
              is_move_legal(board, Move_quiet(square(SubSeq(scripted("scholar", plies + 1), 1, 2)),
                                              square(SubSeq(scripted("scholar", plies + 1), 3, 4))))
        /\ plies = script_len("scholar") =>
              /\ num_moves(board) = 0
              /\ in_check(board)
              /\ in_checkmate(board)
              /\ ~in_stalemate(board)

C6_Witness ==
    /\ line = "scholar"
    /\ plies = 7
    /\ board.turn = Black
    /\ board.checkers = {square(<<"f", "7">>)}
    /\ legal = <<>>

\* C7: for every valid position P, from_fen(to_fen(P)) succeeds and gives a
\* position with the placement, side to move, castling rights, en passant
\* target and half-move clock of P.
C7_RoundTrip ==
    line # "default" /\ text # <<>> =>
        /\ imported # {}
        /\ \A p \in imported :
              /\ p.pieces = board.pieces
              /\ p.colors = board.colors
              /\ p.turn = board.turn
              /\ p.rights = board.rights
              /\ p.ep_target = board.ep_target
              /\ p.half_move_clock = board.half_move_clock

\* The board holding the placement, side to move, rights and target of b and
\* nothing else of it, hashed from scratch.
from_scratch(b) ==
    rehash([Board_default EXCEPT !.pieces = b.pieces, !.colors = b.colors, !.turn = b.turn,
                                 !.rights = b.rights, !.ep_target = b.ep_target])

C9_FiftyMoves ==
    quiet_plies > 100 =>
        /\ can_claim_draw_with(board, "FiftyMoveRule")
        /\ can_claim_draw(board)

C9_Witness ==
    /\ quiet_plies > 100
    /\ plies > quiet_plies
    /\ can_claim_draw_with(board, "FiftyMoveRule")
    /\ can_claim_draw(board)

\* The pieces of b that are not kings, as (colour, type, square).
others(b) ==
    UNION {{<<ct[1], ct[2], sq>> : sq \in b.pieces[ct[2]] \cap b.colors[ct[1]]} :
             ct \in Colors \X (PieceTypes \ {King})}

two_kings(b) ==
    /\ pop_count(b.pieces[King] \cap b.colors[White]) = 1
    /\ pop_count(b.pieces[King] \cap b.colors[Black]) = 1

\* C10: is_material_insufficient is true with only the two kings on the board,
\* and with the two kings and exactly one knight or bishop of either colour; it
\* is false when the third piece is a pawn, a rook or a queen.
C10_Insufficient ==
    two_kings(board) =>
        /\ others(board) = {} => is_material_insufficient(board)
        /\ \A o \in others(board) :
              others(board) = {o} =>
                 (is_material_insufficient(board) <=> o[2] \in {Knight, Bishop})

C10_Witness ==
    /\ line = "builder"
    /\ two_kings(board)
    /\ \E o \in others(board) : others(board) = {o} /\ o[1] = Black /\ o[2] = Bishop
    /\ is_material_insufficient(board)

\* The moves of a pawn of the side to move onto its last rank, as (from, to).
last_rank_steps(b, mvs) ==
    {<<mv.from, mv.to>> : mv \in {m \in mvs : /\ m.from \in own_piece_type(b, Pawn)
                                              /\ rank(m.to) = rank_relative(7, b.turn)}}

\* C11: in every position the count of a fresh MoveGen (len, and num_moves)
\* is the number of moves its iteration yields; no move is yielded twice; a
\* pawn move onto the last rank is yielded as the four promotions to Knight,
\* Bishop, Rook and Queen and never as a Quiet move.
C11_ExactCount ==
    line # "default" =>
        /\ MoveGen_len(legal_moves(board)) = Len(legal)
        /\ num_moves(board) = Len(legal)
        /\ Cardinality(yielded) = Len(legal)
        /\ \A step \in last_rank_steps(board, yielded) :
              {mv.flag : mv \in {m \in yielded : m.from = step[1] /\ m.to = step[2]}}
                 = {Promotion(Knight), Promotion(Bishop), Promotion(Rook), Promotion(Queen)}
        /\ \A mv \in yielded :
              mv.flag.kind = "Promotion" => <<mv.from, mv.to>> \in last_rank_steps(board, yielded)

\* The pawn on h7 may take on g8: four promotions among the moves counted.
C11_Witness ==
    /\ line = "promote"
    /\ plies = script_len("promote") - 1
    /\ last_rank_steps(board, yielded) = {<<square(<<"h", "7">>), square(<<"g", "8">>)>>}
    /\ Cardinality({mv \in yielded : mv.flag.kind = "Promotion"}) = 4
    /\ MoveGen_len(legal_moves(board)) = Len(legal)

\* The moves a sequence holds.
held(mvs) == {mvs[i] : i \in 1 .. Len(mvs)}

\* A masked generator yields the covered moves of the unmasked one, as many
\* as its len() reports.
masked_exact(gen) ==
    /\ held(MoveGenMasked_iter(gen)) = {mv \in yielded : is_covered(gen, mv)}
    /\ Len(MoveGenMasked_iter(gen)) = Cardinality({mv \in yielded : is_covered(gen, mv)})
    /\ Len(MoveGenMasked_iter(gen)) = MoveGenMasked_len(gen)

\* C12: in every position, the iteration of legal_moves_from(sq), for every
\* square, and of legal_moves_of(ptype), for every piece type, yields exactly
\* the moves of the unmasked generator that the masks cover, all four
\* promotions and the covered special moves included, and as many as len().
C12_Masked ==
    line # "default" =>
        /\ \A sq \in Squares : masked_exact(legal_moves_from(board, sq))
        /\ \A ptype \in PieceTypes : masked_exact(legal_moves_of(board, ptype))

\* C13: legal_captures yields exactly the legal moves mv for which
\* captured_by(mv) is Some, en passant captures included.
C13_Captures ==
    line # "default" =>
        held(MoveGenMasked_iter(legal_captures(board)))
            = {mv \in yielded : captured_by(board, mv) # {}}

\* Candidate moves: a piece of the side to move, any destination, any flag
\* (the pawn passed by an en passant capture stands on the fourth or fifth rank).
candidates(b) ==
    {Move(from, to, flag) :
        from \in own_color(b), to \in Squares,
        flag \in {Quiet} \cup {Promotion(ptype) : ptype \in PieceTypes}
                 \cup {Castling(side) : side \in Sides}
                 \cup {EnPassant(passed) : passed \in {sq \in Squares : rank(sq) \in {3, 4}}}}

\* C14: in every position and for every candidate move, is_move_legal and
\* MoveGen::contains are true exactly when the generator yields that move with
\* that flag, the masked generator's contains answers the same whatever its
\* masks, and a move is_move_legal accepts is applied without a panic.
C14_Membership ==
    line # "default" =>
        LET gen == legal_moves(board)
            masked == legal_captures(board)
        IN /\ \A mv \in yielded : is_move_legal(board, mv)
           /\ \A cand \in candidates(board) :
                 /\ MoveGen_contains(gen, cand) <=> cand \in yielded
                 /\ MoveGenMasked_contains(masked, cand) <=> cand \in yielded
                 /\ MoveGen_contains(gen, cand) => ~apply_move_panics(board, cand)

\* The rights a move revokes, as (colour, side): both of a colour when its
\* king's home square is the origin or the destination, one when it is the
\* home square of the rook of that side.
revoked(mv) ==
    UNION {CASE sq = square(<<"e", "1">>) -> {White} \X Sides
             [] sq = square(<<"h", "1">>) -> {<<White, Side_King>>}
             [] sq = square(<<"a", "1">>) -> {<<White, Side_Queen>>}
             [] sq = square(<<"e", "8">>) -> {Black} \X Sides
             [] sq = square(<<"h", "8">>) -> {<<Black, Side_King>>}
             [] sq = square(<<"a", "8">>) -> {<<Black, Side_Queen>>}
             [] OTHER -> {} : sq \in {mv.from, mv.to}}

\* The move applied by a step from the current position, if any.
applied(mv) == ~apply_move_panics(board, mv) /\ plies' = plies + 1 /\ board' = apply_move(board, mv)

\* C15: apply_move leaves a right on exactly when it was on and the move
\* does not revoke it: the king's home square as origin or destination revokes
\* both rights of the colour, a rook's home square the right of that side
\* only, nothing else changes a right and none is ever turned back on.
C15_Rights ==
    [][\A mv \in yielded : applied(mv) =>
          \A col \in Colors : \A side \in Sides :
             has_right(board', col, side)
                <=> (has_right(board, col, side) /\ <<col, side>> \notin revoked(mv))]_vars

\* The rook of a1 has taken the rook of a8: each colour keeps its king's side.
C15_Witness ==
    /\ line = "rooks"
    /\ plies = 1
    /\ square(<<"a", "8">>) \in board.colors[White] \cap board.pieces[Rook]
    /\ has_right(board, White, Side_King) /\ ~has_right(board, White, Side_Queen)
    /\ has_right(board, Black, Side_King) /\ ~has_right(board, Black, Side_Queen)

\* A pawn of the side to move goes two squares up its file from its home rank.
two_squares_forward(b, mv) ==
    /\ mv.from \in own_piece_type(b, Pawn)
    /\ file(mv.to) = file(mv.from)
    /\ IF b.turn = White THEN rank(mv.from) = 1 /\ rank(mv.to) = 3
       ELSE rank(mv.from) = 6 /\ rank(mv.to) = 4

\* C16: after apply_move(mv) the en passant target is the square passed over
\* when mv moved a pawn two squares forward from its home rank, and None
\* after every other move, whatever it was before.
C16_PassantTarget ==
    [][\A mv \in yielded : applied(mv) =>
          board'.ep_target =
             IF two_squares_forward(board, mv)
             THEN {Square_new((rank(mv.from) + rank(mv.to)) \div 2, file(mv.from))}
             ELSE {}]_vars

\* d7d5 has just been played: the target is d6; the move before it, e4e5,
\* had cleared the target e3 of e2e4.
C16_Witness ==
    /\ line = "passant"
    /\ plies = 4
    /\ board.ep_target = {square(<<"d", "6">>)}
    /\ square(<<"d", "5">>) \in board.pieces[Pawn] \cap board.colors[Black]
    /\ square(<<"e", "5">>) \in board.pieces[Pawn] \cap board.colors[White]

\* C17: in every position reached by apply_move from Board::new, the
\* half_move_clock field is the number of moves played since the last capture
\* or pawn move, counted in plies or in full moves: a capture or a pawn move
\* resets it.
C17_HalfMoveClock ==
    line \in FromNew /\ plies > 0 =>
        board.half_move_clock \in {quiet_plies, quiet_plies \div 2}

\* Squares on a common rank, file or diagonal.
on_rank(a, b) == rank(a) = rank(b)

on_file(a, b) == file(a) = file(b)

on_diagonal(a, b) == rank(a) - file(a) = rank(b) - file(b)

on_antidiagonal(a, b) == rank(a) + file(a) = rank(b) + file(b)

colinear(a, b) == on_rank(a, b) \/ on_file(a, b) \/ on_diagonal(a, b) \/ on_antidiagonal(a, b)

\* The line through two distinct colinear squares, from edge to edge.
line_through(a, b) ==
    {sq \in Squares : \/ on_rank(a, b) /\ on_rank(a, sq)
                      \/ on_file(a, b) /\ on_file(a, sq)
                      \/ on_diagonal(a, b) /\ on_diagonal(a, sq)
                      \/ on_antidiagonal(a, b) /\ on_antidiagonal(a, sq)}

\* C18: for two distinct squares on a common rank, file or diagonal
\* fill_line gives the whole line through them, from edge to edge, for two
\* squares that are not colinear the empty set, and the same for (to, from).
C18_Lines ==
    lookup.table = "LINES" /\ lookup.from # lookup.to =>
        /\ lookup.entry = IF colinear(lookup.from, lookup.to)
                          THEN line_through(lookup.from, lookup.to)
                          ELSE EMPTY
        /\ lookup.entry = fill_line(lookup.to, lookup.from)

\* The squares a slider on sq sees on an empty board.
diagonal_rays(sq) == {to \in Squares \ {sq} : on_diagonal(sq, to) \/ on_antidiagonal(sq, to)}

orthogonal_rays(sq) == {to \in Squares \ {sq} : on_rank(sq, to) \/ on_file(sq, to)}

\* C19: the pseudo-moves generated for a bishop are the four diagonal rays
\* from the square, for a rook the four orthogonal rays and for a queen all
\* eight rays.
C19_PseudoMoves ==
    lookup.table = "PSEUDO_MOVES" =>
        /\ lookup.ptype = Bishop =>
              lookup.entry = diagonal_rays(lookup.from) /\ lookup.entry = bishop_rays(lookup.from)
        /\ lookup.ptype = Rook =>
              lookup.entry = orthogonal_rays(lookup.from) /\ lookup.entry = rook_rays(lookup.from)
        /\ lookup.ptype = Queen =>
              lookup.entry = diagonal_rays(lookup.from) \cup orthogonal_rays(lookup.from)

\* C20: applying Move::NONE to the board gives the turn to the opponent and
\* leaves the piece placement, the castling rights and the stored hash as
\* they were.
C20_NullMove ==
    ~panicked =>
        /\ apply_move(board, Move_NONE).turn = opponent(board.turn)
        /\ apply_move(board, Move_NONE).pieces = board.pieces
        /\ apply_move(board, Move_NONE).colors = board.colors
        /\ apply_move(board, Move_NONE).rights = board.rights
        /\ apply_move(board, Move_NONE).hash = board.hash

\* The width of a placement row: a digit counts its value, a letter one file.
RECURSIVE row_files(_)
row_files(row) ==
    IF row = <<>> THEN 0
    ELSE (IF is_digit(Head(row), 10) THEN digit_value(Head(row)) ELSE 1) + row_files(Tail(row))

\* A text with one of the defects of a malformed FEN: the number of fields, a
\* piece letter, the side to move, a castling right, the en passant square,
\* more than 8 ranks or more than 8 files in a rank.
malformed(fen) ==
    LET items == split_whitespace(fen)
        rows == split(items[1], "/")
    IN \/ Len(items) # 6
       \/ \E i \in 1 .. Len(rows) : \E j \in 1 .. Len(rows[i]) :
             index_in(DIGITS, rows[i][j]) = 0
             /\ to_ascii_uppercase(rows[i][j]) \notin {"P", "N", "B", "R", "Q", "K"}
       \/ items[2] \notin {<<"w">>, <<"b">>}
       \/ \E j \in 1 .. Len(items[3]) : items[3][j] \notin {"K", "Q", "k", "q", "-"}
       \/ /\ items[4] # <<"-">>
          /\ ~(/\ Len(items[4]) = 2
               /\ items[4][1] \in {"a", "b", "c", "d", "e", "f", "g", "h"}
               /\ items[4][2] \in {"1", "2", "3", "4", "5", "6", "7", "8"})
       \/ Len(rows) > 8
       \/ \E i \in 1 .. Len(rows) : row_files(rows[i]) > 8

\* C21: from_fen never panics, and every malformed text is returned as an Err.
C21_FenErrors ==
    lookup.table = "from_fen" =>
        /\ ~panicked
        /\ malformed(text) => imported = {}

\* The bit sets the generator iterates on the board: the own pieces of each
\* type, and the sets of the board itself.
iterated(b) ==
    {own_piece_type(b, ptype) : ptype \in PieceTypes}
    \cup {b.colors[col] : col \in Colors} \cup {occupied(b), b.checkers, b.pinned}

\* each member once, lowest index first, in pop_count steps
ascending(bb) ==
    /\ Len(bitboard_iter(bb)) = pop_count(bb)
    /\ {bitboard_iter(bb)[i] : i \in 1 .. Len(bitboard_iter(bb))} = bb
    /\ \A i \in 1 .. Len(bitboard_iter(bb)) - 1 : bitboard_iter(bb)[i] < bitboard_iter(bb)[i + 1]

\* C22: iterating a bit set yields each member square once, lowest index
\* first, and ends after pop_count steps; the moves yielded for one piece
\* come with their destinations in ascending order.
C22_Ascending ==
    line # "default" =>
        /\ \A bb \in iterated(board) : ascending(bb)
        /\ \A i \in 1 .. Len(legal) : \A j \in i + 1 .. Len(legal) :
              /\ legal[i].from = legal[j].from
              /\ legal[i].flag.kind \in {"Quiet", "Promotion"}
              /\ legal[j].flag.kind \in {"Quiet", "Promotion"}
              => legal[i].to <= legal[j].to

\* The eight own pawns are iterated after a move, and a piece has several
\* destinations.
C22_Witness ==
    /\ plies > 0
    /\ pop_count(own_piece_type(board, Pawn)) = 8
    /\ bitboard_iter(own_piece_type(board, Pawn))[1] = scan_forward(own_piece_type(board, Pawn))
    /\ \E i \in 1 .. Len(legal) - 1 :
          legal[i].from = legal[i + 1].from /\ legal[i].to < legal[i + 1].to

\* The position comes from from_fen or from an apply_move.
updated == line \notin {"default", "builder"} \/ plies > 0

\* The enemy pieces that attack the king of the side to move, by the rules.
rules_checkers(b) ==
    LET ksq == CHOOSE sq \in Squares : sq \in b.pieces[King] \cap b.colors[b.turn]
        enemy == opponent(b.turn)
        occ == b.colors[White] \cup b.colors[Black]
        of(ptype) == b.pieces[ptype] \cap b.colors[enemy]
    IN {p \in of(Knight) : ksq \in rules_steps(p, rules_knight_steps)}
       \cup {p \in of(Pawn) : ksq \in rules_steps(p, {<<1, rules_forward(enemy)>>, <<0 - 1, rules_forward(enemy)>>})}
       \cup {p \in of(Bishop) \cup of(Queen) : ksq \in rules_slides(p, rules_bishop_dirs, occ)}
       \cup {p \in of(Rook) \cup of(Queen) : ksq \in rules_slides(p, rules_rook_dirs, occ)}

\* C23: after from_fen and after every apply_move the cached checkers are
\* exactly the enemy pieces attacking the king of the side to move, and
\* in_check is true exactly when is_attacked(king_square, opponent) is.
C23_Checkers ==
    updated =>
        /\ board.checkers = rules_checkers(board)
        /\ in_check(board) <=> is_attacked(board, king_square(board), opponent(board.turn))

\* A move has given check with a slider.
C23_Witness ==
    /\ plies > 0
    /\ board.checkers # {}
    /\ board.checkers \subseteq board.pieces[Bishop] \cup board.pieces[Rook] \cup board.pieces[Queen]

\* The pieces among the given squares standing alone between the king of
\* the side to move and an enemy slider on a line the slider travels, by the
\* rules.
rules_alone(b, among) ==
    LET ksq == CHOOSE sq \in Squares : sq \in b.pieces[King] \cap b.colors[b.turn]
        occ == b.colors[White] \cup b.colors[Black]
        of(ptype) == b.pieces[ptype] \cap b.colors[opponent(b.turn)]
        behind(p, d, sliders) == rules_slide(p, d, occ) \cap sliders # {}
        alone(p, dirs, sliders) ==
            \E d \in dirs : p \in rules_slide(ksq, d, occ) /\ behind(p, d, sliders)
    IN {p \in among : \/ alone(p, rules_bishop_dirs, of(Bishop) \cup of(Queen))
                        \/ alone(p, rules_rook_dirs, of(Rook) \cup of(Queen))}

\* C24: after from_fen and after every apply_move the cached pinned set
\* holds only pieces of the side to move: exactly the own pieces that are the
\* single occupant between the own king and an enemy bishop, rook or queen
\* on a ray that slider travels.
C24_Pinned ==
    updated =>
        /\ board.pinned \subseteq own_color(board)
        /\ board.pinned = rules_alone(board, own_color(board))

\* C24, amended: the cached pinned set holds every piece, of either side,
\* that is the single occupant between the king of the side to move and an
\* enemy bishop, rook or queen on a ray that slider travels; its own pieces
\* are exactly the pinned ones.
C24_PinnedOccupants ==
    updated =>
        /\ board.pinned = rules_alone(board, occupied(board))
        /\ board.pinned \cap own_color(board) = rules_alone(board, own_color(board))

\* An enemy piece stands alone between the king and an enemy slider.
C24_Witness ==
    /\ updated
    /\ board.pinned \ own_color(board) # {}

\* The game has been played without taking a move back.
played_on == ~panicked /\ game.boards # <<>> /\ Len(game.hashes) = Len(game.boards)

\* The hashes of the positions of the game, the current one last.
positions(g) == [i \in 1 .. Len(g.boards) |-> zobrist_hash(g.boards[i])]

\* C25: after any sequence of play_move calls,
\* can_claim_draw_with(ThreefoldRepetition) is true exactly when the current
\* position has occurred at least three times among the positions of the
\* game, the current one included.
C25_Threefold ==
    played_on =>
        (Game_can_claim_draw_with(game, "ThreefoldRepetition")
            <=> count(positions(game), zobrist_hash(Game_board(game))) >= 3)

\* C26: Game::in_stalemate returns what Board::in_stalemate returns on the
\* current board of the game: true exactly when the side to move has no legal
\* move and is not in check.
C26_Stalemate ==
    ~panicked /\ game.boards # <<>> =>
        /\ Game_in_stalemate(game) = in_stalemate(Game_board(game))
        /\ Game_in_stalemate(game) <=>
              (MoveGen_iter(legal_moves(Game_board(game))) = <<>> /\ ~in_check(Game_board(game)))

\* C29: undo_last_move directly after play_move(mv) gives back the game from
\* before play_move, with the same boards, moves, hash history and result,
\* and after any sequence of play_move and undo_last_move the hash history
\* holds one entry per board on the stack.
C29_Undo ==
    ~panicked /\ game.boards # <<>> =>
        /\ Len(game.hashes) = Len(game.boards)
        /\ ~Game_is_finished(game) =>
              \A mv \in game_moves(line, MoveGen_iter(legal_moves(Game_board(game)))) :
                  Game_undo_last_move(Game_play_move(game, mv)) = game

\* C27: every position reached from Board::new through moves the generator
\* yielded is valid by is_valid, the position right after a pawn double push
\* included.
C27_Valid == line \in FromNew /\ ~panicked => is_valid(board)

\* C28: a board returned by Builder::build has the checkers and pinned sets
\* update_attacks computes for its position, so in_check is true exactly when
\* the king of the side to move is attacked, and in_checkmate, in_stalemate
\* and the generated moves are those of the board imported from the same
\* position, whose caches from_fen has computed.
C28_BuiltCaches ==
    line = "builder" /\ plies = 0 =>
        /\ board.checkers = update_attacks(board).checkers
        /\ board.pinned = update_attacks(board).pinned
        /\ in_check(board) <=> is_attacked(board, king_square(board), opponent(board.turn))
        /\ in_checkmate(board) = in_checkmate(update_attacks(board))
        /\ in_stalemate(board) = in_stalemate(update_attacks(board))
        /\ yielded = {MoveGen_iter(legal_moves(update_attacks(board)))[i] :
                         i \in 1 .. Len(MoveGen_iter(legal_moves(update_attacks(board))))}

\* C30: can_claim_draw_with(FiftyMoveRule) is false, and get_result is not
\* Draw(FiftyMoveRule), in every position where 100 or fewer plies have been
\* played since the last capture or pawn move.
C30_NotBeforeFifty ==
    line \in FromNew /\ quiet_plies <= 100 =>
        /\ ~can_claim_draw_with(board, "FiftyMoveRule")
        /\ get_result(board) # <<"Draw", "FiftyMoveRule">>

=============================================================================
